---------------------------- MODULE Spec2Model ----------------------------
(***************************************************************************)
(* A model of the hashcards deck parser (src/src/parser.rs) and of the     *)
(* card model (src/src/types/card.rs).                                     *)
(*                                                                         *)
(* A Rust string is a sequence of one-character strings; a byte is a       *)
(* number 0..255.  Every text of the model is ASCII, so byte offsets and   *)
(* character offsets coincide.                                             *)
(***************************************************************************)
EXTENDS Integers, Sequences, FiniteSets, TLC

VARIABLES
    text,        \* Parser::parse: the text handed to parse
    pc,          \* Parser::parse: "idle" (not called) | "lines" (in the for
                 \* loop) | "dedup" | "done" (returned)
    line_num,    \* Parser::parse: index of the next line of the for loop
    state,       \* Parser::parse: the State of the line machine
    cards,       \* Parser::parse: the cards emitted so far (the Vec `cards`)
    lines,       \* Parser::parse: the Vec `lines`
    result,      \* Parser::parse: the value returned (kind "None" while running)
    overflow_checks, \* the build profile: TRUE when arithmetic overflow panics
                     \* (debug), FALSE when it wraps (release)
    parser,      \* the Parser whose parse is running
    walk,        \* parse_deck: the entries the directory walk yields, in order
    entry_num,   \* parse_deck: how many entries the for loop has finished
    all_cards,   \* parse_deck: the Vec `all_cards`
    deck_result, \* parse_deck: the value returned (kind "None" while running)
    deck_pc,     \* parse_deck: "idle" (not called) | "walk" (in the for loop)
                 \* | "parse" (inside parser.parse) | "done" (returned)
                 \* | "session" (its cards are being drilled)
    mutable,     \* drill: the MutableState behind ServerState.mutable
    poisoned,    \* drill: TRUE once a handler panicked holding that mutex
    shutdown_tx, \* drill: the cell of the one-shot sender, Some or None
    shutdown_pending, \* drill: the Shutdown handlers that have released
                      \* `mutable` and not yet locked shutdown_tx
    shutdown_rx, \* drill: how many signals the one-shot channel was sent
    clock,       \* drill: the next value of Timestamp::now()
    cloze_text,  \* parse_cloze_cards: its argument `text`
    cursor,      \* parse_cloze_cards: where `cursor` begins in text.trim(), as
                 \* a 1-based index (past the end when cursor is empty)
    cloze_tokens, \* parse_cloze_cards: the Vec `tokens`
    cloze_pc,    \* parse_cloze_cards: "idle" (not called) | "scan" (in the
                 \* while loop) | "done" (returned)
    cloze_result, \* parse_cloze_cards: the value returned (kind "None" while
                  \* running)
    cache,       \* Cache: the map `changes` of a cache that is called directly
    cache_calls  \* Cache: the calls made on it so far, each with what it
                 \* returned

\* The locals of Parser::parse.
parse_vars == <<text, pc, line_num, state, cards, lines, result, parser>>

\* The locals of parse_deck.
deck_vars == <<walk, entry_num, all_cards, deck_result, deck_pc>>

\* The state of the drill session.
session_vars ==
    <<mutable, poisoned, shutdown_tx, shutdown_pending, shutdown_rx, clock>>

\* The locals of a call of parse_cloze_cards that is followed step by step.
cloze_vars == <<cloze_text, cursor, cloze_tokens, cloze_pc, cloze_result>>

\* A Cache that is called directly, and the record of its calls.
cache_vars == <<cache, cache_calls>>

vars == <<text, pc, line_num, state, cards, lines, result, overflow_checks,
          parser, walk, entry_num, all_cards, deck_result, deck_pc,
          mutable, poisoned, shutdown_tx, shutdown_pending, shutdown_rx,
          clock, cloze_text, cursor, cloze_tokens, cloze_pc, cloze_result,
          cache, cache_calls>>

(***************************************************************************)
(* Strings                                                                 *)
(***************************************************************************)

\* char::is_whitespace, restricted to the ASCII white space of the model.
WhiteSpace == {" ", "\t", "\n", "\r"}

RECURSIVE TrimStart(_)
\* str::trim_start
TrimStart(s) ==
    IF s # <<>> /\ Head(s) \in WhiteSpace THEN TrimStart(Tail(s)) ELSE s

RECURSIVE TrimEnd(_)
\* str::trim_end
TrimEnd(s) ==
    IF s # <<>> /\ s[Len(s)] \in WhiteSpace
    THEN TrimEnd(SubSeq(s, 1, Len(s) - 1))
    ELSE s

\* str::trim
Trim(s) == TrimEnd(TrimStart(s))

\* str::starts_with
StartsWith(s, p) == Len(s) >= Len(p) /\ SubSeq(s, 1, Len(p)) = p

RECURSIVE SplitInclusive(_, _, _)
\* str::split_inclusive('\n'): the pieces of s, each ending with its "\n"
\* (the last piece may lack one); cur is the piece being read.
SplitInclusive(s, cur, acc) ==
    IF s = <<>> THEN (IF cur = <<>> THEN acc ELSE Append(acc, cur))
    ELSE IF Head(s) = "\n"
         THEN SplitInclusive(Tail(s), <<>>, Append(acc, Append(cur, "\n")))
         ELSE SplitInclusive(Tail(s), Append(cur, Head(s)), acc)

\* str::lines
Lines(s) ==
    \* The map of str::lines over one piece: strip the final "\n", and a "\r"
    \* only when it stood before that "\n".
    LET StripLineEnding(piece) ==
            IF piece # <<>> /\ piece[Len(piece)] = "\n"
            THEN LET l == SubSeq(piece, 1, Len(piece) - 1)
                 IN  IF l # <<>> /\ l[Len(l)] = "\r" THEN SubSeq(l, 1, Len(l) - 1) ELSE l
            ELSE piece
    IN
    LET pieces == SplitInclusive(s, <<>>, <<>>)
    IN  [i \in 1..Len(pieces) |-> StripLineEnding(pieces[i])]

RECURSIVE Join(_, _)
\* [&str]::join(sep)
Join(ls, sep) ==
    IF ls = <<>> THEN <<>>
    ELSE IF Len(ls) = 1 THEN ls[1]
    ELSE ls[1] \o sep \o Join(Tail(ls), sep)

(***************************************************************************)
(* Line::read                                                              *)
(***************************************************************************)

\* An is_question that passes over white space before the tag.
is_question_indented(line) == StartsWith(TrimStart(line), <<"Q", ":">>)

is_question(line) == StartsWith(line, <<"Q", ":">>)

is_answer(line) == StartsWith(line, <<"A", ":">>)

is_cloze(line) == StartsWith(line, <<"C", ":">>)

is_separator(line) == Trim(line) = <<"-", "-", "-">>

\* fn trim(line): line[2..].trim()
trim(line) == Trim(SubSeq(line, 3, Len(line)))

LineRead(line) ==
    \* enum Line: the kind, and the String the variant carries (none for Separator).
    LET MkLine(k, b) == [kind |-> k, body |-> b]
    IN
    IF is_question(line) THEN MkLine("StartQuestion", trim(line))
    ELSE IF is_answer(line) THEN MkLine("StartAnswer", trim(line))
    ELSE IF is_cloze(line) THEN MkLine("StartCloze", trim(line))
    ELSE IF is_separator(line) THEN MkLine("Separator", <<>>)
    ELSE MkLine("Text", line)

(***************************************************************************)
(* Card model: src/src/types/card.rs                                       *)
(***************************************************************************)

\* The backtick character: a TLA+ string literal cannot hold it.
Backtick == "backtick"

AsBytes(s) ==
    \* str::as_bytes for the characters of the model (their ASCII codes).
    LET ByteOf(c) ==
            CASE c = "\t" -> 9   [] c = "\n" -> 10  [] c = "\r" -> 13  [] c = " " -> 32
              [] c = "\"" -> 34  [] c = "$" -> 36   [] c = "-" -> 45   [] c = ":" -> 58
              [] c = "=" -> 61   [] c = "A" -> 65   [] c = "B" -> 66   [] c = "C" -> 67
              [] c = "D" -> 68   [] c = "Q" -> 81   [] c = "\\" -> 92  [] c = Backtick -> 96
              [] c = "a" -> 97   [] c = "b" -> 98   [] c = "c" -> 99   [] c = "e" -> 101
              [] c = "i" -> 105  [] c = "l" -> 108  [] c = "m" -> 109  [] c = "n" -> 110
              [] c = "o" -> 111  [] c = "q" -> 113  [] c = "s" -> 115  [] c = "z" -> 122  [] c = "|" -> 124
    IN
    [i \in 1..Len(s) |-> ByteOf(s[i])]

\* The width of usize in bytes (a 64-bit target).
UsizeBytes == 8

RECURSIVE LeBytes(_, _)
\* usize::to_le_bytes: the k low bytes of n, least significant first.  A
\* usize that wrapped below zero is held as the negative number congruent to
\* it; \div rounds down and % is never negative, so its bytes are those of
\* the two's complement value.
LeBytes(n, k) ==
    IF k = 0 THEN <<>> ELSE <<n % 256>> \o LeBytes(n \div 256, k - 1)

to_le_bytes(n) == LeBytes(n, UsizeBytes)

\* Hasher (crate::types::card_hash): a digest of the bytes fed to it by
\* update, in order.  The digest is taken as collision-free: it is the byte
\* stream itself.
HasherNew == <<>>

HasherUpdate(h, bytes) == h \o bytes

HasherFinalize(h) == h

\* CardContent::Basic { question, answer }
Basic(q, a) == [type |-> "Basic", question |-> q, answer |-> a]

\* CardContent::Cloze { text, start, end }
Cloze(t, s, e) == [type |-> "Cloze", text |-> t, start |-> s, end |-> e]

\* A new_basic that stores the question and the answer as they come.
new_basic_untrimmed(question, answer) == Basic(question, answer)

\* CardContent::new_basic
new_basic(question, answer) == Basic(Trim(question), Trim(answer))

\* CardContent::new_cloze
new_cloze(prompt, start, end) == Cloze(prompt, start, end)

\* CardContent::hash
ContentHash(content) ==
    IF content.type = "Basic"
    THEN LET h1 == HasherUpdate(HasherNew, AsBytes(<<"B", "a", "s", "i", "c">>))
             h2 == HasherUpdate(h1, AsBytes(content.question))
             h3 == HasherUpdate(h2, AsBytes(content.answer))
         IN  HasherFinalize(h3)
    ELSE LET h1 == HasherUpdate(HasherNew, AsBytes(<<"C", "l", "o", "z", "e">>))
             h2 == HasherUpdate(h1, AsBytes(content.text))
             h3 == HasherUpdate(h2, to_le_bytes(content.start))
             h4 == HasherUpdate(h3, to_le_bytes(content.end))
         IN  HasherFinalize(h4)

\* A family hash that covers the start of the deletion as well as the text.
FamilyHashOfSpan(content) ==
    IF content.type = "Basic" THEN <<>>
    ELSE <<AsBytes(<<"C", "l", "o", "z", "e">>) \o AsBytes(content.text)
             \o to_le_bytes(content.start)>>

\* CardContent::family_hash: <<>> models None, <<h>> models Some(h).
FamilyHash(content) ==
    IF content.type = "Basic" THEN <<>>
    ELSE LET h1 == HasherUpdate(HasherNew, AsBytes(<<"C", "l", "o", "z", "e">>))
             h2 == HasherUpdate(h1, AsBytes(content.text))
         IN  <<HasherFinalize(h2)>>

\* A Card::new whose hash covers the line range as well as the content.
CardNewHashingRange(deck_name, file_path, range, content) ==
    [deck_name |-> deck_name, file_path |-> file_path, range |-> range,
     content |-> content,
     hash |-> ContentHash(content) \o to_le_bytes(range[1]) \o to_le_bytes(range[2])]

\* Card::new: the hash is computed from the content once and cached.
CardNew(deck_name, file_path, range, content) ==
    [deck_name |-> deck_name, file_path |-> file_path, range |-> range,
     content |-> content, hash |-> ContentHash(content)]

\* Card::hash: the cached field.
CardHash(card) == card.hash

RECURSIVE HashLess(_, _)
\* Ord for CardHash: the order of the raw hash bytes.
HashLess(a, b) ==
    IF b = <<>> THEN FALSE
    ELSE IF a = <<>> THEN TRUE
    ELSE IF Head(a) # Head(b) THEN Head(a) < Head(b)
    ELSE HashLess(Tail(a), Tail(b))

(***************************************************************************)
(* The cloze tokenizer: the nom parsers nested in Parser::parse_cloze_cards *)
(*                                                                         *)
(* A parser takes the input s and the cursor i (the 1-based index of the   *)
(* next character; Len(s) + 1 at the end of the input) and returns 0 for   *)
(* Err, or the cursor after what it matched.  A parser handed the cursor 0 *)
(* (the Err of the parser before it in a sequence) returns 0, so a nom     *)
(* sequence (p, q) is the composition q(s, p(s, i)).                       *)
(***************************************************************************)

\* nom alt((p, q)) on the results a of p and b of q: q counts only when p
\* is an Err.
OrElse(a, b) == IF a # 0 THEN a ELSE b

\* nom tag(t)
tag(t, s, i) ==
    IF i # 0 /\ i + Len(t) - 1 <= Len(s) /\ SubSeq(s, i, i + Len(t) - 1) = t
    THEN i + Len(t)
    ELSE 0

RECURSIVE RunEnd(_, _, _)
\* The first cursor from i on that stands at a character of stop, or the end
\* of the input.
RunEnd(stop, s, i) ==
    IF i > Len(s) \/ s[i] \in stop THEN i ELSE RunEnd(stop, s, i + 1)

RECURSIVE alt_tags(_, _, _)
\* nom alt((tag(t1), tag(t2), ...)): the first tag that matches.
alt_tags(tags, s, i) ==
    IF tags = <<>> THEN 0
    ELSE OrElse(tag(Head(tags), s, i), alt_tags(Tail(tags), s, i))

RECURSIVE escaped_loop(_, _, _, _, _)
\* nom escaped(is_not(stop), '\\', alt(escapable)), started at cursor start
\* and now at cursor i.
escaped_loop(stop, escapable, s, start, i) ==
    \* nom escaped: one turn of its loop at cursor i, where the normal parser
    \* returned n.
    LET escaped_step(stop2, escapable1, s11, start1, i10, n) ==
            \* nom escaped, after the escapable parser returned e behind a control
            \* character.
            LET escaped_resume(stop0, escapable0, s1, start0, e) ==
                    IF e = 0 THEN 0 ELSE escaped_loop(stop0, escapable0, s1, start0, e)
            IN
            IF n # 0 THEN escaped_loop(stop2, escapable1, s11, start1, n)
            ELSE IF s11[i10] = "\\"
                 THEN IF i10 >= Len(s11) THEN 0
                      ELSE escaped_resume(stop2, escapable1, s11, start1,
                                          alt_tags(escapable1, s11, i10 + 1))
                 ELSE IF i10 = start1 THEN 0 ELSE i10
    IN
    \* nom is_not(stop): the longest run without a character of stop; Err when
    \* the run is empty.
    LET is_not(stop1, s10, i9) ==
            \* The result of a parser that must consume: Err when its match from i is
            \* empty.
            LET NonEmpty(i0, j) == IF j = i0 THEN 0 ELSE j
            IN
            IF i9 = 0 THEN 0 ELSE NonEmpty(i9, RunEnd(stop1, s10, i9))
    IN
    IF i > Len(s) THEN Len(s) + 1
    ELSE escaped_step(stop, escapable, s, start, i, is_not(stop, s, i))

escaped(stop, escapable, s, i) ==
    IF i = 0 THEN 0 ELSE escaped_loop(stop, escapable, s, i, i)

\* A plain that matches the empty string where escaped returns an Err.
plain_or_empty(s, i) ==
    OrElse(escaped({"$", Backtick, "|"},
                   << <<"$", "$">>, <<"$">>, <<Backtick>>, <<"|", "|">> >>, s, i),
           i)

\* fn plain
plain(s, i) ==
    escaped({"$", Backtick, "|"},
            << <<"$", "$">>, <<"$">>, <<Backtick>>, <<"|", "|">> >>, s, i)

\* fn inline_latex
inline_latex(s, i) ==
    tag(<<"$">>, s, escaped({"$"}, << <<"$">> >>, s, tag(<<"$">>, s, i)))

\* fn block_latex
block_latex(s, i) ==
    tag(<<"$", "$">>, s,
        escaped({"$"}, << <<"$", "$">> >>, s, tag(<<"$", "$">>, s, i)))

\* fn inline_code
inline_code(s, i) ==
    \* nom many0(none_of(stop)): never an Err.
    LET many0_none_of(stop, s0, i1) == IF i1 = 0 THEN 0 ELSE RunEnd(stop, s0, i1)
    IN
    tag(<<Backtick>>, s,
        many0_none_of({Backtick, "\n", "\r"}, s, tag(<<Backtick>>, s, i)))

\* nom line_ending: "\n" or "\r\n"
line_ending(s, i) == OrElse(tag(<<"\n">>, s, i), tag(<<"\r", "\n">>, s, i))

\* (line_ending, tag(fence))
fence_line(fence, s, i) == tag(fence, s, line_ending(s, i))

RECURSIVE many_till_fence(_, _, _)
\* many_till(anychar, (line_ending, tag(fence))): the terminator is consumed.
many_till_fence(fence, s, i) ==
    \* many_till: one turn at cursor i, where the terminator returned t; on its
    \* Err anychar consumes one character, and is an Err at the end of the input.
    LET many_till_step(fence0, s2, i2, t) ==
            IF t # 0 THEN t
            ELSE IF i2 > Len(s2) THEN 0
            ELSE many_till_fence(fence0, s2, i2 + 1)
    IN
    IF i = 0 THEN 0 ELSE many_till_step(fence, s, i, fence_line(fence, s, i))

\* fn block_code
block_code(s, i) ==
    \* fn block_code, given the fence
    LET block_code_fenced(fence, s5, i5) ==
            \* nom opt(line_ending)
            LET opt_line_ending(s3, i3) == IF i3 = 0 THEN 0 ELSE OrElse(line_ending(s3, i3), i3)
            IN
            IF fence = <<>> THEN 0
            ELSE opt_line_ending(s5,
                    fence_line(fence, s5,
                        many_till_fence(fence, s5, line_ending(s5, tag(fence, s5, i5)))))
    IN
    \* take_while1(|c| c == '`') at cursor i: the run of backticks there (empty
    \* where take_while1 is an Err).
    LET FenceAt(s4, i4) ==
            SubSeq(s4, i4, RunEnd({s4[k] : k \in 1..Len(s4)} \ {Backtick}, s4, i4) - 1)
    IN
    block_code_fenced(FenceAt(s, i), s, i)

\* alt((block_code, block_latex, inline_latex, inline_code, plain))
alt_inner(s, i) ==
    OrElse(block_code(s, i),
        OrElse(block_latex(s, i),
            OrElse(inline_latex(s, i),
                OrElse(inline_code(s, i), plain(s, i)))))

RECURSIVE many0_inner(_, _)
\* nom many0(alt_inner)
many0_inner(s, i) ==
    \* nom many0: one turn at cursor i, where the inner parser returned n.  Its
    \* Err ends the loop with Ok; an Ok that consumed nothing is an Err of many0.
    LET many0_step(s6, i6, n) ==
            IF n = 0 THEN i6
            ELSE IF n = i6 THEN 0
            ELSE many0_inner(s6, n)
    IN
    IF i = 0 THEN 0 ELSE many0_step(s, i, alt_inner(s, i))

\* A token: it ends before cursor next and its captured slice is s[lo..hi].
Token(next, lo, hi, c) == [next |-> next, lo |-> lo, hi |-> hi, is_cloze |-> c]

NoToken == Token(0, 0, 0, FALSE)

\* fn cloze: delimited(tag("||"), recognize(many0(...)), tag("||"))
cloze(s, i) ==
    LET cloze_open(s8, a) ==
            LET cloze_close(s7, a1, b) ==
                    \* fn cloze, given the cursors a after the opening "||", b after the inner
                    \* content and c after the closing "||": the captured slice is the inner
                    \* content.
                    LET cloze_token(a0, b0, c) == IF c = 0 THEN NoToken ELSE Token(c, a0, b0 - 1, TRUE)
                    IN
                    cloze_token(a1, b, tag(<<"|", "|">>, s7, b))
            IN
            cloze_close(s8, a, many0_inner(s8, a))
    IN
    cloze_open(s, tag(<<"|", "|">>, s, i))

\* fn next_token
next_token(s, i) ==
    \* fn next_token, given the result c of cloze and n of the other parsers
    LET first_token(i7, c, n) ==
            IF c.next # 0 THEN c
            ELSE IF n # 0 THEN Token(n, i7, n - 1, FALSE)
            ELSE NoToken
    IN
    first_token(i, cloze(s, i), alt_inner(s, i))

RECURSIVE ScanTokens(_, _, _)
\* The scanning loop of parse_cloze_cards: the (slice, is_cloze) pairs pushed
\* to `tokens`, with the cursor at i.
ScanTokens(s, i, tokens) ==
    \* One turn of the scanning loop at cursor i, where next_token returned t:
    \* push the token, or skip one byte.
    LET ScanStep(s9, i8, tokens0, t) ==
            IF t.next # 0
            THEN ScanTokens(s9, t.next,
                     Append(tokens0, [slice |-> SubSeq(s9, t.lo, t.hi),
                                     is_cloze |-> t.is_cloze]))
            ELSE ScanTokens(s9, i8 + 1, tokens0)
    IN
    IF i > Len(s) THEN tokens ELSE ScanStep(s, i, tokens, next_token(s, i))

RECURSIVE CleanOf(_)
\* The `clean` string: the slices of the tokens, in order.
CleanOf(tokens) ==
    IF tokens = <<>> THEN <<>> ELSE Head(tokens).slice \o CleanOf(Tail(tokens))

RECURSIVE ClozeStartsFrom(_, _, _)
\* cloze_starts: (clean.len() before the token, token index) of the cloze
\* tokens from index k on, where clean_len is clean.len() before token k.
ClozeStartsFrom(tokens, k, clean_len) ==
    IF k > Len(tokens) THEN <<>>
    ELSE (IF tokens[k].is_cloze
          THEN <<[clean_start |-> clean_len, tok_idx |-> k]>>
          ELSE <<>>)
         \o ClozeStartsFrom(tokens, k + 1, clean_len + Len(tokens[k].slice))

(***************************************************************************)
(* Results                                                                 *)
(***************************************************************************)

\* Ok(v) and Err(e) of a Result; Panic is a call that unwinds instead of
\* returning; None is the value of a call that has not returned yet.
Ok(v) == [kind |-> "Ok", value |-> v]

Err(e) == [kind |-> "Err", error |-> e]

Panic == [kind |-> "Panic"]

None == [kind |-> "None"]

\* A ParserError that stores the line number of the message (line index + 1)
\* in place of the line index.
ParserErrorOneBased(message, file_path, n) ==
    [message |-> message, file_path |-> file_path, line_num |-> n + 1]

\* ParserError::new
ParserError(message, file_path, n) ==
    [message |-> message, file_path |-> file_path, line_num |-> n]

(***************************************************************************)
(* Parser::parse_cloze_cards                                               *)
(***************************************************************************)

\* struct Parser
Parser(deck_name, file_path) == [deck_name |-> deck_name, file_path |-> file_path]

\* Whether clean_start + orig_slice.len() - 1 underflows in usize
\* arithmetic: only 0 + 0 - 1 does.
Underflows(clean_start, len) == clean_start + len = 0

\* clean_start + orig_slice.len() - 1 where it does not panic: when the
\* subtraction wraps, the result usize::MAX is held as -1.
CleanEnd(clean_start, len) == clean_start + len - 1

\* The second half of parse_cloze_cards, from the tokens of the scan: with
\* overflow checks on, an underflowing subtraction panics.
cards_of_tokens(self, tokens, start_line, end_line) ==
    LET ClozeStarts(tokens1) == ClozeStartsFrom(tokens1, 1, 0)
    IN
    LET clean == CleanOf(tokens)
        cloze_starts == ClozeStarts(tokens)
        SliceLen(k) == Len(tokens[cloze_starts[k].tok_idx].slice)
        new_cards == [k \in 1..Len(cloze_starts) |->
                        CardNew(self.deck_name, self.file_path,
                                <<start_line, end_line>>,
                                new_cloze(clean, cloze_starts[k].clean_start,
                                          CleanEnd(cloze_starts[k].clean_start,
                                                   SliceLen(k))))]
    IN  IF overflow_checks /\ \E k \in 1..Len(cloze_starts) :
                                 Underflows(cloze_starts[k].clean_start, SliceLen(k))
        THEN Panic
        ELSE IF new_cards = <<>>
        THEN Err(ParserError("Cloze card must contain at least one cloze deletion.",
                             self.file_path, start_line))
        ELSE Ok(new_cards)

\* Parser::parse_cloze_cards
parse_cloze_cards(self, body, start_line, end_line) ==
    \* The tokens of a cloze block body: the scan of the trimmed body.
    LET Tokenize(body0) == ScanTokens(Trim(body0), 1, <<>>)
    IN
    cards_of_tokens(self, Tokenize(body), start_line, end_line)

(***************************************************************************)
(* The line machine: Parser::parse_line, Parser::finalize, Parser::parse    *)
(***************************************************************************)

\* enum State
Initial == [kind |-> "Initial"]

ReadingQuestion(q, s) == [kind |-> "ReadingQuestion", question |-> q, start_line |-> s]

ReadingAnswer(q, a, s) ==
    [kind |-> "ReadingAnswer", question |-> q, answer |-> a, start_line |-> s]

\* A ReadingCloze that does not keep the line its block started at.
ReadingClozeUnplaced(t, s) == [kind |-> "ReadingCloze", text |-> t, start_line |-> 0]

ReadingCloze(t, s) == [kind |-> "ReadingCloze", text |-> t, start_line |-> s]

\* What one call of parse_line leaves: the State it returns and the Vec
\* `cards` after it.
Step(st, cs) == [state |-> st, cards |-> cs]

\* A format! that trims the line it appends.
FormatLinesTrimmed(a, b) == a \o <<"\n">> \o Trim(b)

\* format!("{a}\n{b}")
FormatLines(a, b) == a \o <<"\n">> \o b

\* A terminating line that only ends the block, and starts none.
StartOfNothing(line, num) == Initial

\* The State a line starts when it ends a block: the arms of parse_line
\* that follow an emitted card.
StartOf(line, num) ==
    IF line.kind = "StartQuestion" THEN ReadingQuestion(line.body, num)
    ELSE IF line.kind = "StartCloze" THEN ReadingCloze(line.body, num)
    ELSE Initial

\* cards.extend(r?): Ok carries the Vec `cards` after the call.
ExtendCards(cs, r) == IF r.kind = "Ok" THEN Ok(cs \o r.value) ELSE r

\* parse_line, State::Initial
parse_line_initial(self, line, num, cs) ==
    CASE line.kind = "StartQuestion" -> Ok(Step(ReadingQuestion(line.body, num), cs))
      [] line.kind = "StartAnswer" ->
            Err(ParserError("Found answer tag without a question.", self.file_path, num))
      [] line.kind = "StartCloze" -> Ok(Step(ReadingCloze(line.body, num), cs))
      [] line.kind = "Separator" -> Ok(Step(Initial, cs))
      [] line.kind = "Text" -> Ok(Step(Initial, cs))

\* parse_line, State::ReadingQuestion
parse_line_question(self, st, line, num, cs) ==
    CASE line.kind = "StartQuestion" ->
            Err(ParserError("New question without answer.", self.file_path, num))
      [] line.kind = "StartAnswer" ->
            Ok(Step(ReadingAnswer(st.question, line.body, st.start_line), cs))
      [] line.kind = "StartCloze" ->
            Err(ParserError("Found cloze tag while reading a question.",
                            self.file_path, num))
      [] line.kind = "Separator" ->
            Err(ParserError("Found flashcard separator while reading a question.",
                            self.file_path, num))
      [] line.kind = "Text" ->
            Ok(Step(ReadingQuestion(FormatLines(st.question, line.body), st.start_line),
                    cs))

\* A Basic card whose range counts lines from one.
BasicCardOneBased(self, st, end_line) ==
    CardNew(self.deck_name, self.file_path, <<st.start_line + 1, end_line + 1>>,
            new_basic(st.question, st.answer))

\* The Basic card of a finished question and answer block.
BasicCard(self, st, end_line) ==
    CardNew(self.deck_name, self.file_path, <<st.start_line, end_line>>,
            new_basic(st.question, st.answer))

\* parse_line, State::ReadingAnswer
parse_line_answer(self, st, line, num, cs) ==
    CASE line.kind \in {"StartQuestion", "StartCloze", "Separator"} ->
            Ok(Step(StartOf(line, num), Append(cs, BasicCard(self, st, num))))
      [] line.kind = "StartAnswer" ->
            Err(ParserError("Found answer tag while reading an answer.",
                            self.file_path, num))
      [] line.kind = "Text" ->
            Ok(Step(ReadingAnswer(st.question, FormatLines(st.answer, line.body),
                                  st.start_line), cs))

\* parse_line, State::ReadingCloze
parse_line_cloze(self, st, line, num, cs) ==
    \* Ok(st) after a statement that may have returned early with e.
    LET ThenState(st0, e) == IF e.kind = "Ok" THEN Ok(Step(st0, e.value)) ELSE e
    IN
    CASE line.kind \in {"StartQuestion", "StartCloze", "Separator"} ->
            ThenState(StartOf(line, num),
                      ExtendCards(cs, parse_cloze_cards(self, st.text,
                                                        st.start_line, num)))
      [] line.kind = "StartAnswer" ->
            Err(ParserError("Found answer tag while reading a cloze card.",
                            self.file_path, num))
      [] line.kind = "Text" ->
            Ok(Step(ReadingCloze(FormatLines(st.text, line.body), st.start_line), cs))

\* Parser::parse_line
parse_line(self, st, line, num, cs) ==
    CASE st.kind = "Initial" -> parse_line_initial(self, line, num, cs)
      [] st.kind = "ReadingQuestion" -> parse_line_question(self, st, line, num, cs)
      [] st.kind = "ReadingAnswer" -> parse_line_answer(self, st, line, num, cs)
      [] st.kind = "ReadingCloze" -> parse_line_cloze(self, st, line, num, cs)

\* Parser::finalize: Ok carries the Vec `cards` after the call.
finalize(self, st, last_line, cs) ==
    CASE st.kind = "Initial" -> Ok(cs)
      [] st.kind = "ReadingQuestion" ->
            Err(ParserError("File ended while reading a question without answer.",
                            self.file_path, last_line))
      [] st.kind = "ReadingAnswer" -> Ok(Append(cs, BasicCard(self, st, last_line)))
      [] st.kind = "ReadingCloze" ->
            ExtendCards(cs, parse_cloze_cards(self, st.text, st.start_line, last_line))

\* A dedup loop that never inserts into `seen`: every card is kept.
UniqueNeverSeen(cs, seen, unique) == unique \o cs

RECURSIVE UniqueFrom(_, _, _)
\* The dedup loop of parse: unique_cards after the cards cs, given the
\* hashes `seen` and the cards `unique` kept so far.
UniqueFrom(cs, seen, unique) ==
    IF cs = <<>> THEN unique
    ELSE IF CardHash(Head(cs)) \in seen
         THEN UniqueFrom(Tail(cs), seen, unique)
         ELSE UniqueFrom(Tail(cs), seen \cup {CardHash(Head(cs))},
                         Append(unique, Head(cs)))

unique_cards(cs) == UniqueFrom(cs, {}, <<>>)

\* lines.len() as the last line index.
LastLineLen(ls) == Len(ls)

\* let last_line = if lines.is_empty() { 0 } else { lines.len() - 1 }
LastLine(ls) == IF ls = <<>> THEN 0 ELSE Len(ls) - 1

RECURSIVE ParseFrom(_, _, _, _, _)
\* Parser::parse from line index num on, in state st with cards cs.
ParseFrom(self, ls, num, st, cs) ==
    \* The for loop of parse after parse_line returned r for line num.
    LET ParseContinue(self2, ls1, num0, r) ==
            IF r.kind = "Ok"
            THEN ParseFrom(self2, ls1, num0 + 1, r.value.state, r.value.cards)
            ELSE r
    IN
    \* The tail of parse, after the for loop: finalize, then the dedup.
    LET parse_finish(self1, st1, ls0, cs0) ==
            \* The dedup of parse, after finalize returned f (its ? returns early).
            LET DedupResult(f) == IF f.kind = "Ok" THEN Ok(unique_cards(f.value)) ELSE f
            IN
            DedupResult(finalize(self1, st1, LastLine(ls0), cs0))
    IN
    IF num >= Len(ls) THEN parse_finish(self, st, ls, cs)
    ELSE ParseContinue(self, ls, num,
                       parse_line(self, st, LineRead(ls[num + 1]), num, cs))

\* Parser::parse
Parse(self, t) == ParseFrom(self, Lines(t), 0, Initial, <<>>)

(***************************************************************************)
(* Parser::parse as a state machine: one step per iteration of the for     *)
(* loop, and one for the finalization and the dedup that follow it.        *)
(***************************************************************************)

\* The longest text, in lines.
MaxLines == 3

\* Performance::New.
New == [kind |-> "New"]

\* Performance::Reviewed.
Reviewed(performance) == [kind |-> "Reviewed", performance |-> performance]

\* Cache::new.
CacheNew == [h \in {} |-> New]

\* An insert that overwrites the entry of a hash that is in the cache.
CacheInsertOverwriting(changes, card_hash, performance) ==
    Ok([h \in DOMAIN changes \cup {card_hash} |->
           IF h = card_hash THEN performance ELSE changes[h]])

\* Cache::insert: the cache with the entry added, or an error when the
\* hash is in the cache.
CacheInsert(changes, card_hash, performance) ==
    IF card_hash \in DOMAIN changes
    THEN Err([message |-> "already in cache", hash |-> card_hash])
    ELSE Ok([h \in DOMAIN changes \cup {card_hash} |->
                IF h = card_hash THEN performance ELSE changes[h]])

\* Cache::get.
CacheGet(changes, card_hash) ==
    IF card_hash \in DOMAIN changes
    THEN Ok(changes[card_hash])
    ELSE Err([message |-> "not found in cache", hash |-> card_hash])

\* An update that returns Ok and leaves the entry as it was.
CacheUpdateKeeping(changes, card_hash, performance) ==
    IF card_hash \in DOMAIN changes
    THEN Ok(changes)
    ELSE Err([message |-> "not found in cache", hash |-> card_hash])

\* Cache::update: the cache with the entry replaced, or an error when the
\* hash is not in the cache.
CacheUpdate(changes, card_hash, performance) ==
    IF card_hash \in DOMAIN changes
    THEN Ok([changes EXCEPT ![card_hash] = performance])
    ELSE Err([message |-> "not found in cache", hash |-> card_hash])

\* make_test_parser
TestParser == Parser(<<"t", "e", "s", "t">>, <<"t", "e", "s", "t", ".", "m", "d">>)

\* No drill session has been started.
SessionIdle ==
    /\ mutable = None
    /\ poisoned = FALSE
    /\ shutdown_tx = <<>>
    /\ shutdown_pending = 0
    /\ shutdown_rx = 0
    /\ clock = 0

\* No call of parse_cloze_cards is followed step by step.
ClozeIdle ==
    /\ cloze_text = <<>>
    /\ cursor = 0
    /\ cloze_tokens = <<>>
    /\ cloze_pc = "idle"
    /\ cloze_result = None

ParseInit ==
    \* The texts handed to parse: up to MaxLines lines of the catalog joined
    \* by "\n", with or without a final line ending.
    LET LineCatalog ==
            { <<"Q", ":", "a">>,
              <<"Q", ":">>,
              <<"A", ":", " ", "a", " ">>,
              <<"A", ":">>,
              <<"C", ":", "|", "|", "a", "|", "|">>,
              <<"C", ":", "a">>,
              <<"C", ":", "|", "|", "|", "|">>,
              <<"C", ":", "|", "|", "a", "|", "|", "|", "|", "b", "|", "|">>,
              <<"-", "-", "-">>,
              <<" ", "a">>,
              <<>> }
    IN
    /\ text \in { Join(ls, <<"\n">>) \o e :
                    ls \in UNION { [1..n -> LineCatalog] : n \in 0..MaxLines },
                    e \in { <<>>, <<"\n">> } }
    /\ lines = Lines(text)
    /\ pc = "lines"
    /\ line_num = 0
    /\ state = Initial
    /\ cards = <<>>
    /\ result = None
    /\ overflow_checks \in BOOLEAN
    /\ parser = TestParser
    /\ walk = <<>>
    /\ entry_num = 0
    /\ all_cards = <<>>
    /\ deck_result = None
    /\ deck_pc = "idle"
    /\ SessionIdle
    /\ cache = CacheNew
    /\ cache_calls = <<>>
    /\ ClozeIdle

\* The line the for loop is about to read.
CurrentLine == LineRead(lines[line_num + 1])

\* What parse_line returns for the line the for loop is about to read.
CurrentStep == parse_line(parser, state, CurrentLine, line_num, cards)

\* One iteration of the for loop whose parse_line returns Ok.
ParseLineOk ==
    /\ pc = "lines"
    /\ line_num < Len(lines)
    /\ \E r \in {CurrentStep} :
           /\ r.kind = "Ok"
           /\ state' = r.value.state
           /\ cards' = r.value.cards
    /\ line_num' = line_num + 1
    /\ UNCHANGED <<text, lines, pc, result, overflow_checks, parser>>
    /\ UNCHANGED deck_vars
    /\ UNCHANGED session_vars
    /\ UNCHANGED cloze_vars
    /\ UNCHANGED cache_vars

\* An iteration that drops the error of parse_line and goes on with the next
\* line.
ParseLineSkip ==
    /\ pc = "lines"
    /\ line_num < Len(lines)
    /\ CurrentStep.kind # "Ok"
    /\ line_num' = line_num + 1
    /\ UNCHANGED <<text, lines, pc, state, cards, result, overflow_checks, parser>>
    /\ UNCHANGED deck_vars
    /\ UNCHANGED session_vars
    /\ UNCHANGED cloze_vars
    /\ UNCHANGED cache_vars

\* One iteration of the for loop whose parse_line does not return Ok: the ?
\* returns the error from parse (or the panic unwinds).
ParseLineFail ==
    /\ pc = "lines"
    /\ line_num < Len(lines)
    /\ \E r \in {CurrentStep} :
           /\ r.kind # "Ok"
           /\ result' = r
    /\ pc' = "done"
    /\ UNCHANGED <<text, lines, line_num, state, cards, overflow_checks, parser>>
    /\ UNCHANGED deck_vars
    /\ UNCHANGED session_vars
    /\ UNCHANGED cloze_vars
    /\ UNCHANGED cache_vars

\* What finalize returns after the last line.
CurrentFinal == finalize(parser, state, LastLine(lines), cards)

\* After the last line, a finalize that returns Ok: the Vec `cards` holds the
\* cards of the last block.
ParseFinalizeOk ==
    /\ pc = "lines"
    /\ line_num = Len(lines)
    /\ \E f \in {CurrentFinal} :
           /\ f.kind = "Ok"
           /\ cards' = f.value
    /\ pc' = "dedup"
    /\ UNCHANGED <<text, lines, line_num, state, result, overflow_checks, parser>>
    /\ UNCHANGED deck_vars
    /\ UNCHANGED session_vars
    /\ UNCHANGED cloze_vars
    /\ UNCHANGED cache_vars

\* After the last line, a finalize that does not return Ok: the ? returns the
\* error from parse (or the panic unwinds).
ParseFinalizeFail ==
    /\ pc = "lines"
    /\ line_num = Len(lines)
    /\ \E f \in {CurrentFinal} :
           /\ f.kind # "Ok"
           /\ result' = f
    /\ pc' = "done"
    /\ UNCHANGED <<text, lines, line_num, state, cards, overflow_checks, parser>>
    /\ UNCHANGED deck_vars
    /\ UNCHANGED session_vars
    /\ UNCHANGED cloze_vars
    /\ UNCHANGED cache_vars

\* The dedup loop, and the return of unique_cards.
ParseDedup ==
    /\ pc = "dedup"
    /\ result' = Ok(unique_cards(cards))
    /\ pc' = "done"
    /\ UNCHANGED <<text, lines, line_num, state, cards, overflow_checks, parser>>
    /\ UNCHANGED deck_vars
    /\ UNCHANGED session_vars
    /\ UNCHANGED cloze_vars
    /\ UNCHANGED cache_vars

ParseNext ==
    \/ ParseLineOk
    \/ ParseLineFail
    \/ ParseFinalizeOk
    \/ ParseFinalizeFail
    \/ ParseDedup

Spec == ParseInit /\ [][ParseNext]_vars

\* The longest text whose lines are classified, in lines.
MaxReadLines == 2

ReadInit ==
    \* The texts whose lines are classified: up to MaxReadLines lines, which
    \* are the tags with and without white space before them and in lower
    \* case, a tag without a body, separators with white space around them
    \* and with a fourth dash, text and the empty line.
    LET ReadLines ==
            { <<"Q", ":", " ", "a", " ">>,
              <<" ", "Q", ":", "a">>,
              <<"q", ":", "a">>,
              <<"Q">>,
              <<"A", ":", "a">>,
              <<" ", "A", ":", "a">>,
              <<"a", ":", "a">>,
              <<"C", ":", "|", "|", "a", "|", "|">>,
              <<" ", "C", ":", "|", "|", "a", "|", "|">>,
              <<"c", ":", "|", "|", "a", "|", "|">>,
              <<"-", "-", "-">>,
              <<" ", "-", "-", "-", "\t">>,
              <<"-", "-", "-", "-">>,
              <<" ", "a", " ">>,
              <<>> }
    IN
    /\ text \in { Join(ls, <<"\n">>) \o e :
                    ls \in UNION { [1..n -> ReadLines] : n \in 0..MaxReadLines },
                    e \in { <<>>, <<"\n">> } }
    /\ lines = Lines(text)
    /\ pc = "lines"
    /\ line_num = 0
    /\ state = Initial
    /\ cards = <<>>
    /\ result = None
    /\ overflow_checks \in BOOLEAN
    /\ parser = TestParser
    /\ walk = <<>>
    /\ entry_num = 0
    /\ all_cards = <<>>
    /\ deck_result = None
    /\ deck_pc = "idle"
    /\ SessionIdle
    /\ cache = CacheNew
    /\ cache_calls = <<>>
    /\ ClozeIdle

SpecRead == ReadInit /\ [][ParseNext]_vars

(***************************************************************************)
(* Parser::parse_cloze_cards as a state machine: one step per iteration of *)
(* the while loop that scans the block, and one for the two loops that     *)
(* build the clean text and the cards, and the return.                     *)
(***************************************************************************)

\* The most pieces a cloze block is made of.
MaxPieces == 3

\* The (start_line, end_line) handed to parse_cloze_cards.
ClozeRange == <<0, 1>>

ClozeInit ==
    \* The texts handed to parse_cloze_cards: up to MaxPieces pieces, which are
    \* plain text, white space, the delimiters on their own, deletions, and a
    \* "||" inside inline math, inline code, block math and a fenced code block,
    \* and a second closing fence.
    LET PieceCatalog ==
            { <<"a">>,
              <<" ">>,
              <<"$">>,
              <<Backtick>>,
              <<"\\">>,
              <<"|", "|">>,
              <<"|", "|", "b", "|", "|">>,
              <<"|", "|", "|", "|">>,
              <<"$", "|", "|", "$">>,
              <<Backtick, "|", "|", Backtick>>,
              <<"$", "$", "|", "|", "$", "$">>,
              <<Backtick, Backtick, Backtick, "\n", "|", "|", "b", "|", "|", "\n",
                Backtick, Backtick, Backtick>>,
              <<"\n", Backtick, Backtick, Backtick>> }
    IN
    /\ overflow_checks \in BOOLEAN
    /\ cloze_text \in { Join(ps, <<>>) :
                          ps \in UNION { [1..n -> PieceCatalog] : n \in 0..MaxPieces } }
    /\ cursor = 1
    /\ cloze_tokens = <<>>
    /\ cloze_pc = "scan"
    /\ cloze_result = None
    /\ text = <<>>
    /\ lines = <<>>
    /\ pc = "idle"
    /\ line_num = 0
    /\ state = Initial
    /\ cards = <<>>
    /\ result = None
    /\ parser = TestParser
    /\ walk = <<>>
    /\ entry_num = 0
    /\ all_cards = <<>>
    /\ deck_result = None
    /\ deck_pc = "idle"
    /\ SessionIdle
    /\ cache = CacheNew
    /\ cache_calls = <<>>

\* text.as_str().trim(): what the while loop scans.
Trimmed == Trim(cloze_text)

\* What next_token returns for the cursor of the while loop.
CurrentToken == next_token(Trimmed, cursor)

\* One iteration of the while loop whose next_token returns Ok: the token is
\* pushed and the cursor moves behind it.
ScanPush ==
    /\ cloze_pc = "scan"
    /\ cursor <= Len(Trimmed)
    /\ \E t \in {CurrentToken} :
           /\ t.next # 0
           /\ cloze_tokens' = Append(cloze_tokens,
                                     [slice |-> SubSeq(Trimmed, t.lo, t.hi),
                                      is_cloze |-> t.is_cloze])
           /\ cursor' = t.next
    /\ UNCHANGED <<cloze_text, cloze_pc, cloze_result, overflow_checks>>
    /\ UNCHANGED <<deck_vars, parse_vars, session_vars>>
    /\ UNCHANGED cache_vars

\* One iteration of the while loop whose next_token returns Err: the cursor
\* moves one byte on and nothing is pushed.
ScanSkip ==
    /\ cloze_pc = "scan"
    /\ cursor <= Len(Trimmed)
    /\ CurrentToken.next = 0
    /\ cursor' = cursor + 1
    /\ UNCHANGED <<cloze_text, cloze_tokens, cloze_pc, cloze_result, overflow_checks>>
    /\ UNCHANGED <<deck_vars, parse_vars, session_vars>>
    /\ UNCHANGED cache_vars

\* After the while loop: the loops over tokens and cloze_starts, and the
\* return.
ClozeReturn ==
    /\ cloze_pc = "scan"
    /\ cursor > Len(Trimmed)
    /\ cloze_result' = cards_of_tokens(parser, cloze_tokens,
                                       ClozeRange[1], ClozeRange[2])
    /\ cloze_pc' = "done"
    /\ UNCHANGED <<cloze_text, cursor, cloze_tokens, overflow_checks>>
    /\ UNCHANGED <<deck_vars, parse_vars, session_vars>>
    /\ UNCHANGED cache_vars

ClozeNext ==
    \/ ScanPush
    \/ ScanSkip
    \/ ClozeReturn

SpecCloze == ClozeInit /\ [][ClozeNext]_vars

\* The stepwise parse_cloze_cards returns what the recursive one computes.
ClozeAgrees ==
    cloze_pc = "done" =>
        cloze_result = parse_cloze_cards(parser, cloze_text,
                                         ClozeRange[1], ClozeRange[2])

(***************************************************************************)
(* Properties of Parser::parse_line, Parser::finalize and Parser::parse    *)
(***************************************************************************)

\* parse is in its for loop, about to hand a line to parse_line.
InLoop == pc = "lines" /\ line_num < Len(lines)

\* parse has left its for loop and is about to call finalize.
AtEnd == pc = "lines" /\ line_num = Len(lines)

\* The lines that end a block: Question, Cloze, Separator.
Terminators == {"StartQuestion", "StartCloze", "Separator"}

\* The transition table's error message for a (state, line) pair; "" for a
\* pair that is not an error of the table.
TableError(s, l) ==
    CASE s = "Initial" /\ l = "StartAnswer" -> "Found answer tag without a question."
      [] s = "ReadingQuestion" /\ l = "StartQuestion" -> "New question without answer."
      [] s = "ReadingQuestion" /\ l = "StartCloze" ->
            "Found cloze tag while reading a question."
      [] s = "ReadingQuestion" /\ l = "Separator" ->
            "Found flashcard separator while reading a question."
      [] s = "ReadingAnswer" /\ l = "StartAnswer" ->
            "Found answer tag while reading an answer."
      [] s = "ReadingCloze" /\ l = "StartAnswer" ->
            "Found answer tag while reading a cloze card."
      [] OTHER -> ""

\* The current line ends an answer block / a cloze block.
EndsAnswerBlock == state.kind = "ReadingAnswer" /\ CurrentLine.kind \in Terminators

EndsClozeBlock == state.kind = "ReadingCloze" /\ CurrentLine.kind \in Terminators

\* The cloze block accumulated in the state, tokenized with end line n.
BlockResult(n) == parse_cloze_cards(parser, state.text, state.start_line, n)

\* The Basic card of the answer block accumulated in the state, with end
\* line n.
BlockCard(n) ==
    CardNew(parser.deck_name, parser.file_path, <<state.start_line, n>>,
            new_basic(state.question, state.answer))

\* The state a terminating line starts, from its body.
Successor ==
    CASE CurrentLine.kind = "StartQuestion" ->
            [kind |-> "ReadingQuestion", question |-> CurrentLine.body,
             start_line |-> line_num]
      [] CurrentLine.kind = "StartCloze" ->
            [kind |-> "ReadingCloze", text |-> CurrentLine.body,
             start_line |-> line_num]
      [] CurrentLine.kind = "Separator" -> [kind |-> "Initial"]

\* C1: parse_line returns an error for exactly the six (state, line) pairs
\* of the transition table, with the table's message and the index of the
\* offending line; for any other pair it succeeds, unless the line ends a
\* cloze block whose tokenization does not return Ok, and then parse ends
\* with that outcome.
C1_ParseLineErrors ==
    [][InLoop =>
        IF TableError(state.kind, CurrentLine.kind) # ""
        THEN /\ pc' = "done"
             /\ result' = [kind |-> "Err",
                           error |-> [message |-> TableError(state.kind, CurrentLine.kind),
                                      file_path |-> parser.file_path,
                                      line_num |-> line_num]]
        ELSE IF EndsClozeBlock /\ BlockResult(line_num).kind # "Ok"
        THEN pc' = "done" /\ result' = BlockResult(line_num)
        ELSE pc' = "lines" /\ line_num' = line_num + 1 /\ result' = None]_vars

\* C1 witness: parse ended with the separator error of the table, at line 1.
C1_Witness ==
    /\ pc = "done"
    /\ result.kind = "Err"
    /\ result.error.message = "Found flashcard separator while reading a question."
    /\ result.error.line_num = 1

\* C2 as stated: a line emits a card if and only if the state is
\* ReadingAnswer or ReadingCloze and the line is a Question, Cloze or
\* Separator.
C2_EmitIffTerminator ==
    [][InLoop => ((cards' # cards) <=> (EndsAnswerBlock \/ EndsClozeBlock))]_vars

\* C2: a line emits a card if and only if it ends an answer block, or ends
\* a cloze block whose tokenization returns Ok; the cards emitted are the
\* Basic card of the accumulated question and answer, or the Cloze cards of
\* the accumulated text, with range (start_line, line index); the successor
\* state is the one the terminating line starts from its body.
C2_EmitOnTerminator ==
    [][InLoop =>
        /\ (cards' # cards) <=>
              (EndsAnswerBlock \/ (EndsClozeBlock /\ BlockResult(line_num).kind = "Ok"))
        /\ EndsAnswerBlock =>
              cards' = Append(cards, BlockCard(line_num)) /\ state' = Successor
        /\ (EndsClozeBlock /\ BlockResult(line_num).kind = "Ok") =>
              cards' = cards \o BlockResult(line_num).value /\ state' = Successor
        /\ (EndsClozeBlock /\ BlockResult(line_num).kind # "Ok") =>
              state' = state /\ result' = BlockResult(line_num)]_vars

\* C2 witness: a Cloze line has just ended a block, emitted its card and
\* started the next cloze block.
C2_Witness ==
    /\ pc = "lines"
    /\ cards # <<>>
    /\ cards[Len(cards)].range[2] = line_num - 1
    /\ state.kind = "ReadingCloze"
    /\ state.start_line = line_num - 1

\* C3 as stated: finalize yields the cards of a last answer or cloze block
\* (and no card or error from Initial, the error from ReadingQuestion).
C3_FinalizeYieldsBlock ==
    [][AtEnd =>
        CASE state.kind = "Initial" -> pc' = "dedup" /\ cards' = cards
          [] state.kind = "ReadingQuestion" ->
                /\ pc' = "done"
                /\ result' = [kind |-> "Err",
                              error |-> [message |->
                                  "File ended while reading a question without answer.",
                                  file_path |-> parser.file_path,
                                  line_num |-> Len(lines) - 1]]
          [] state.kind = "ReadingAnswer" ->
                pc' = "dedup" /\ cards' = Append(cards, BlockCard(Len(lines) - 1))
          [] state.kind = "ReadingCloze" ->
                /\ pc' = "dedup"
                /\ Len(cards') > Len(cards)
                /\ \A k \in 1..Len(cards') :
                      k > Len(cards) =>
                         /\ cards'[k].content.type = "Cloze"
                         /\ cards'[k].range = <<state.start_line, Len(lines) - 1>>]_vars

\* C3: finalize does: Initial -> no card, no error; ReadingQuestion -> the
\* end-of-file error at the last line index; ReadingAnswer -> exactly one
\* Basic card with range (start_line, last line index); ReadingCloze -> the
\* outcome of tokenizing the block with range (start_line, last line
\* index): its Cloze cards when it returns Ok, and otherwise parse ends with
\* that outcome (the zero-deletion error) and no card.
C3_Finalize ==
    [][AtEnd =>
        CASE state.kind = "Initial" -> pc' = "dedup" /\ cards' = cards
          [] state.kind = "ReadingQuestion" ->
                /\ pc' = "done"
                /\ result' = [kind |-> "Err",
                              error |-> [message |->
                                  "File ended while reading a question without answer.",
                                  file_path |-> parser.file_path,
                                  line_num |-> Len(lines) - 1]]
          [] state.kind = "ReadingAnswer" ->
                pc' = "dedup" /\ cards' = Append(cards, BlockCard(Len(lines) - 1))
          [] state.kind = "ReadingCloze" ->
                IF BlockResult(Len(lines) - 1).kind = "Ok"
                THEN /\ pc' = "dedup"
                     /\ cards' = cards \o BlockResult(Len(lines) - 1).value
                     /\ Len(cards') > Len(cards)
                     /\ \A k \in 1..Len(cards') :
                           k > Len(cards) =>
                              /\ cards'[k].content.type = "Cloze"
                              /\ cards'[k].range = <<state.start_line, Len(lines) - 1>>
                ELSE /\ pc' = "done"
                     /\ result' = BlockResult(Len(lines) - 1)
                     /\ cards' = cards]_vars

\* C3 witness: finalize has emitted the Basic card of a last answer block
\* that began after the first line.
C3_Witness ==
    /\ pc = "dedup"
    /\ state.kind = "ReadingAnswer"
    /\ state.start_line > 0
    /\ cards # <<>>
    /\ cards[Len(cards)].content.type = "Basic"
    /\ cards[Len(cards)].range = <<state.start_line, Len(lines) - 1>>

\* What the step parse is about to take returns: parse_line in the for
\* loop, finalize after it.
StepOutcome == IF line_num < Len(lines) THEN CurrentStep ELSE CurrentFinal

\* C4: when a line transition or the finalization fails, parse returns that
\* outcome at once: the value returned carries the error and no cards (the
\* cards emitted so far stay behind in `cards`), the failing line is the last
\* one read, and parse takes no step after it has returned.
C4_FailFast ==
    [][/\ pc # "done"
       /\ (pc = "lines" /\ StepOutcome.kind # "Ok") =>
             /\ pc' = "done"
             /\ result' = StepOutcome
             /\ "value" \notin DOMAIN result'
             /\ line_num' = line_num
             /\ cards' = cards
             /\ state' = state]_vars

\* C4 witness: parse returned an error after earlier lines had emitted
\* cards.
C4_Witness ==
    /\ pc = "done"
    /\ result.kind = "Err"
    /\ cards # <<>>
    /\ "value" \notin DOMAIN result

\* The index in cs of the first card with hash h.
FirstIndex(cs, h) ==
    CHOOSE k \in 1..Len(cs) :
        CardHash(cs[k]) = h /\ \A j \in 1..(k - 1) : CardHash(cs[j]) # h

\* C5: the sequence parse returns has no two cards with the same hash, has
\* a card for every hash emitted, keeps for each hash the first card emitted
\* with it, and keeps the retained cards in emission order.
C5_Dedup ==
    (pc = "done" /\ result.kind = "Ok") =>
        /\ \A i, j \in 1..Len(result.value) :
              i # j => CardHash(result.value[i]) # CardHash(result.value[j])
        /\ {CardHash(cards[k]) : k \in 1..Len(cards)} =
              {CardHash(result.value[i]) : i \in 1..Len(result.value)}
        /\ \A i \in 1..Len(result.value) :
              result.value[i] = cards[FirstIndex(cards, CardHash(result.value[i]))]
        /\ \A i, j \in 1..Len(result.value) :
              i < j => FirstIndex(cards, CardHash(result.value[i]))
                          < FirstIndex(cards, CardHash(result.value[j]))

\* C5 witness: parse returned at least two cards and dropped a duplicate.
C5_Witness ==
    /\ pc = "done"
    /\ result.kind = "Ok"
    /\ Len(result.value) >= 2
    /\ Len(cards) > Len(result.value)

\* The stepwise parse returns what the recursive Parse computes.
ParseAgrees == pc = "done" => result = Parse(parser, text)

(***************************************************************************)
(* The deck loader: extract_frontmatter and parse_deck                     *)
(***************************************************************************)

\* An Option: None is <<>>, Some(x) is <<x>>.
Some(x) == <<x>>

\* ErrorReport (crate::error): the error of a Fallible, made by
\* ErrorReport::new from a message (the record [message |-> m]) or by the ?
\* operator from the error of the failing call.
ErrorReport(cause) == [report |-> cause]

\* The ? operator on a Result whose error is not an ErrorReport.
Reported(r) == IF r.kind = "Err" THEN Err(ErrorReport(r.error)) ELSE r

\* The text "---".
Dashes == <<"-", "-", "-">>

RECURSIVE TomlFrom(_, _)
\* toml::from_str::<DeckMetadata> over the lines ls of a document, with the
\* name read so far: Ok(name) or an Err.  The documents of the model are
\* made of blank lines and of  name = "v"  lines; any other line is one
\* that TOML rejects, and so is a second name line.
TomlFrom(ls, name) ==
    LET TomlName(line) ==
            LET TomlAssigned(rest) ==
                    \* The value v of a TOML line of the form  name = "v"  (a basic string
                    \* without escapes), given the line without the key: Some(v), or None when
                    \* the line is not of that form.
                    LET TomlString(v) ==
                            IF Len(v) >= 2 /\ v[1] = "\"" /\ v[Len(v)] = "\""
                               /\ \A k \in 2..(Len(v) - 1) : v[k] \notin {"\"", "\\", "\n"}
                            THEN Some(SubSeq(v, 2, Len(v) - 1))
                            ELSE <<>>
                    IN
                    IF rest # <<>> /\ Head(rest) = "=" THEN TomlString(Trim(Tail(rest))) ELSE <<>>
            IN
            IF StartsWith(Trim(line), <<"n", "a", "m", "e">>)
            THEN TomlAssigned(TrimStart(SubSeq(Trim(line), 5, Len(Trim(line)))))
            ELSE <<>>
    IN
    IF ls = <<>> THEN Ok(name)
    ELSE IF Trim(Head(ls)) = <<>> THEN TomlFrom(Tail(ls), name)
    ELSE IF TomlName(Head(ls)) # <<>> /\ name = <<>>
         THEN TomlFrom(Tail(ls), TomlName(Head(ls)))
         ELSE Err([toml |-> "syntax"])

toml_from_str(document) == TomlFrom(Lines(document), <<>>)

\* A search that takes the end of the text for the closing delimiter.
ClosingAtEnd(ls, k) == Len(ls)

RECURSIVE ClosingFrom(_, _)
\* The for loop of extract_frontmatter: the 1-based index of the first line
\* from k on that trims to "---", or 0 when there is none.
ClosingFrom(ls, k) ==
    IF k > Len(ls) THEN 0
    ELSE IF Trim(ls[k]) = Dashes THEN k
    ELSE ClosingFrom(ls, k + 1)

\* The content as the lines after the n-th, joined again by "\n".
AfterLines(t, n) == Join(SubSeq(Lines(t), n + 1, Len(Lines(t))), <<"\n">>)

RECURSIVE AfterNewlines(_, _)
\* The char_indices loop of extract_frontmatter: the text after its n-th
\* "\n", empty when it has fewer or nothing follows.
AfterNewlines(t, n) ==
    IF n = 0 THEN t
    ELSE IF t = <<>> THEN <<>>
    ELSE IF Head(t) = "\n" THEN AfterNewlines(Tail(t), n - 1)
    ELSE AfterNewlines(Tail(t), n)

\* An extract_frontmatter that finds no frontmatter in any text.
extract_frontmatter_absent(t) == Ok([name |-> <<>>, content |-> t])

\* extract_frontmatter: Ok carries the metadata's name and the content.
extract_frontmatter(t) ==
    \* extract_frontmatter after the opening delimiter, where the search for
    \* the closing one returned closing.
    LET FrontmatterClosed(t3, ls, closing) ==
            \* extract_frontmatter after the closing delimiter was found at the 1-based
            \* line index closing, where toml::from_str returned metadata.
            LET FrontmatterParsed(t0, closing0, metadata) ==
                    IF metadata.kind # "Ok"
                    THEN Err(ErrorReport([message |-> "Failed to parse TOML frontmatter"]))
                    ELSE Ok([name |-> metadata.value, content |-> AfterNewlines(t0, closing0)])
            IN
            IF closing = 0
            THEN Err(ErrorReport([message |->
                         "Frontmatter opening '---' found but no closing '---'"]))
            ELSE FrontmatterParsed(t3, closing,
                     toml_from_str(Join(SubSeq(ls, 2, closing - 1), <<"\n">>)))
    IN
    IF Lines(t) = <<>> \/ Trim(Lines(t)[1]) # Dashes
    THEN Ok([name |-> <<>>, content |-> t])
    ELSE FrontmatterClosed(t, Lines(t), ClosingFrom(Lines(t), 2))

RECURSIVE LastIndexOf(_, _)
\* The index of the last c in s, 0 when there is none.
LastIndexOf(s, c) ==
    IF s = <<>> THEN 0
    ELSE IF s[Len(s)] = c THEN Len(s)
    ELSE LastIndexOf(SubSeq(s, 1, Len(s) - 1), c)

\* Path::file_name: the last component of the path.
FileName(path) == SubSeq(path, LastIndexOf(path, "/") + 1, Len(path))

extension(path) ==
    \* Path::extension of a file name whose last dot is at index dot: None
    \* without a dot, or with a single dot that begins the name.
    LET ExtensionOf(name, dot) ==
            IF dot <= 1 THEN <<>> ELSE Some(SubSeq(name, dot + 1, Len(name)))
    IN
    ExtensionOf(FileName(path), LastIndexOf(FileName(path), "."))

file_stem(path) ==
    \* Path::file_stem of a file name whose last dot is at index dot.
    LET FileStemOf(name, dot) == IF dot <= 1 THEN name ELSE SubSeq(name, 1, dot - 1)
    IN
    FileStemOf(FileName(path), LastIndexOf(FileName(path), "."))

\* A unit of a file name that is not valid Unicode.
Undecodable == "undecodable"

\* OsStr::to_str: None for a name that is not valid Unicode.
to_str(os_str) ==
    IF \E k \in 1..Len(os_str) : os_str[k] = Undecodable THEN <<>> ELSE Some(os_str)

\* What the directory walk yields for one entry: an Err of the walk, or a
\* path, whether it is a file, and what read_to_string returns for it.
Entry(walk_ok, path, is_file, read) ==
    [walk_ok |-> walk_ok, path |-> path, is_file |-> is_file, read |-> read]

File(path, read) == Entry(TRUE, path, TRUE, read)

\* The most entries in a walk.
MaxFiles == 3

\* The entries the walks are made of.
EntryCatalog ==
    LET WalkError == Entry(FALSE, <<>>, FALSE, Err([io |-> "walk"]))
    IN
    LET Directory(path) == Entry(TRUE, path, FALSE, Err([io |-> "directory"]))
    IN
    {
      \* a Basic card with an empty answer
      File(<<"a", ".", "m", "d">>,
           Ok(<<"Q", ":", "a", "\n", "A", ":">>)),
      \* a Basic card with an empty question, and a Cloze card
      File(<<"b", ".", "m", "d">>,
           Ok(<<"Q", ":", "\n", "A", ":", "a", "\n", "C", ":", "|", "|",
              "a", "|", "|">>)),
      \* frontmatter with a name, then the card of a.md and the Cloze card of b.md
      File(<<"c", ".", "m", "d">>,
           Ok(<<"-", "-", "-", "\n", "n", "a", "m", "e", "=", "\"", "D",
              "\"", "\n", "-", "-", "-", "\n", "Q", ":", "a", "\n", "A",
              ":", "\n", "C", ":", "|", "|", "a", "|", "|">>)),
      \* a question without answer: parse_line fails
      File(<<"d", ".", "m", "d">>,
           Ok(<<"Q", ":", "a", "\n", "Q", ":", "a">>)),
      \* a cloze block without deletion: finalize fails
      File(<<"e", ".", "m", "d">>,
           Ok(<<"C", ":", "a">>)),
      \* frontmatter that is not closed
      File(<<"f", ".", "m", "d">>,
           Ok(<<"-", "-", "-", "\n", "Q", ":", "a">>)),
      \* frontmatter that is not TOML
      File(<<"g", ".", "m", "d">>,
           Ok(<<"-", "-", "-", "\n", "Q", ":", "a", "\n", "-", "-", "-",
              "\n">>)),
      \* an empty deletion
      File(<<"i", ".", "m", "d">>,
           Ok(<<"C", ":", "|", "|", "|", "|">>)),
      \* a cloze block ended by a separator, and an answer block ended by
      \* the end of the file
      File(<<"j", ".", "m", "d">>,
           Ok(<<"C", ":", "|", "|", "b", "|", "|", "\n", "-", "-", "-", "\n",
              "Q", ":", "b", "\n", "A", ":", "b">>)),
      \* not a deck file
      File(<<"n", ".", "t", "x", "t">>,
           Ok(<<"Q", ":", "a", "\n", "A", ":", "a">>)),
      \* a file that cannot be read
      File(<<"h", ".", "m", "d">>, Err([io |-> "read"])),
      \* a directory
      Directory(<<"s", ".", "m", "d">>),
      \* an entry the walk fails on
      WalkError }

\* The walks: up to MaxFiles different entries, in any order.
Walks ==
    { w \in UNION { [1..n -> EntryCatalog] : n \in 0..MaxFiles } :
        \A i, j \in 1..Len(w) : i # j => w[i] # w[j] }

\* path.is_file() && path.extension().is_some_and(|ext| ext == "md")
IsDeckFile(entry) == entry.is_file /\ extension(entry.path) = Some(<<"m", "d">>)

OpenEntry(entry) ==
    \* An entry that the for loop of parse_deck passes over.
    LET Skip == [kind |-> "Skip"]
    IN
    LET ReadEntry(entry0) ==
            \* The body of the for loop of parse_deck up to Parser::new, for an entry:
            \* Skip, an Err, or Ok with the parser and the content to parse.
            LET OpenedFile(path, fm) ==
                    \* Parser::new(deck_name, path) for a file whose frontmatter is fm.
                    LET ParserOf(path1, fm0) ==
                            \* metadata.name.unwrap_or_else(|| file stem)
                            LET DeckNameOf(name, path0) ==
                                    IF name # <<>> THEN name[1]
                                    ELSE IF to_str(file_stem(path0)) # <<>>
                                    THEN to_str(file_stem(path0))[1]
                                    ELSE <<"N", "o", "n", "e">>
                            IN
                            Parser(DeckNameOf(fm0.name, path1), path1)
                    IN
                    IF fm.kind # "Ok" THEN fm
                    ELSE Ok([parser |-> ParserOf(path, fm.value), content |-> fm.value.content])
            IN
            IF entry0.read.kind # "Ok" THEN Reported(entry0.read)
            ELSE OpenedFile(entry0.path, extract_frontmatter(entry0.read.value))
    IN
    IF ~entry.walk_ok THEN Reported(entry.read)
    ELSE IF ~IsDeckFile(entry) THEN Skip
    ELSE ReadEntry(entry)

\* A sort that leaves the cards in the order they were collected.
SortInsertNever(sorted, card) == Append(sorted, card)

RECURSIVE SortInsert(_, _)
\* The place of card in the sorted cards: after every card whose hash is
\* not greater, so that cards with equal hashes keep their order (the sort
\* is stable).
SortInsert(sorted, card) ==
    IF sorted = <<>> THEN <<card>>
    ELSE IF HashLess(CardHash(card), CardHash(Head(sorted)))
         THEN <<card>> \o sorted
         ELSE <<Head(sorted)>> \o SortInsert(Tail(sorted), card)

RECURSIVE SortFrom(_, _)
SortFrom(cs, sorted) ==
    IF cs = <<>> THEN sorted ELSE SortFrom(Tail(cs), SortInsert(sorted, Head(cs)))

\* all_cards.sort_by_key(|c| c.hash())
sort_by_key(cs) == SortFrom(cs, <<>>)

RECURSIVE DedupFrom(_, _)
\* Vec::dedup_by_key over the cards cs, given the cards kept so far: a card
\* whose hash equals that of the last kept card is removed.
DedupFrom(cs, kept) ==
    IF cs = <<>> THEN kept
    ELSE IF kept # <<>> /\ CardHash(Head(cs)) = CardHash(kept[Len(kept)])
         THEN DedupFrom(Tail(cs), kept)
         ELSE DedupFrom(Tail(cs), Append(kept, Head(cs)))

\* all_cards.dedup_by_key(|c| c.hash())
dedup_by_key(cs) == DedupFrom(cs, <<>>)

\* The tail of parse_deck, after the for loop.
deck_finish(cs) == Ok(dedup_by_key(sort_by_key(cs)))

\* The body of the for loop of parse_deck for one entry.
visit_entry(entry) ==
    \* parser.parse(content)? for an opened file: Ok with the cards of the
    \* file, or an Err (or the panic).
    LET ParsedEntry(opened) ==
            IF opened.kind # "Ok" THEN opened
            ELSE Reported(Parse(opened.value.parser, opened.value.content))
    IN
    ParsedEntry(OpenEntry(entry))

RECURSIVE ParseDeckFrom(_, _, _)
\* parse_deck from entry k of the walk w on, with all_cards = cs.
ParseDeckFrom(w, k, cs) ==
    \* The for loop of parse_deck after the body returned r for entry k.
    LET ParseDeckContinue(w0, k0, cs1, r) ==
            IF r.kind = "Skip" THEN ParseDeckFrom(w0, k0 + 1, cs1)
            ELSE IF r.kind = "Ok" THEN ParseDeckFrom(w0, k0 + 1, cs1 \o r.value)
            ELSE r
    IN
    IF k > Len(w) THEN deck_finish(cs)
    ELSE ParseDeckContinue(w, k, cs, visit_entry(w[k]))

\* parse_deck, for a directory whose walk yields w.
parse_deck(w) == ParseDeckFrom(w, 1, <<>>)

(***************************************************************************)
(* parse_deck as a state machine: one step per entry that is passed over   *)
(* or fails before its parse, one to enter parser.parse (whose steps are   *)
(* those of Parser::parse above), one to leave it, and one for the sort,   *)
(* the dedup and the return.                                               *)
(***************************************************************************)

DeckInit ==
    /\ overflow_checks \in BOOLEAN
    /\ walk \in Walks
    /\ entry_num = 0
    /\ all_cards = <<>>
    /\ deck_result = None
    /\ deck_pc = "walk"
    /\ text = <<>>
    /\ lines = <<>>
    /\ pc = "idle"
    /\ line_num = 0
    /\ state = Initial
    /\ cards = <<>>
    /\ result = None
    /\ parser = TestParser
    /\ SessionIdle
    /\ cache = CacheNew
    /\ cache_calls = <<>>
    /\ ClozeIdle

\* The entry the for loop is about to visit.
CurrentEntry == walk[entry_num + 1]

\* What the body of the for loop does with that entry before its parse.
CurrentOpen == OpenEntry(CurrentEntry)

\* An entry that is not a deck file.
DeckSkipEntry ==
    /\ deck_pc = "walk"
    /\ entry_num < Len(walk)
    /\ CurrentOpen.kind = "Skip"
    /\ entry_num' = entry_num + 1
    /\ UNCHANGED <<walk, all_cards, deck_result, deck_pc, overflow_checks>>
    /\ UNCHANGED parse_vars
    /\ UNCHANGED session_vars
    /\ UNCHANGED cloze_vars
    /\ UNCHANGED cache_vars

\* A deck file that was read and whose frontmatter was extracted: parse
\* starts on its content.
DeckParseEntry ==
    /\ deck_pc = "walk"
    /\ entry_num < Len(walk)
    /\ \E o \in {CurrentOpen} :
           /\ o.kind = "Ok"
           /\ parser' = o.value.parser
           /\ text' = o.value.content
           /\ lines' = Lines(o.value.content)
    /\ pc' = "lines"
    /\ line_num' = 0
    /\ state' = Initial
    /\ cards' = <<>>
    /\ result' = None
    /\ deck_pc' = "parse"
    /\ UNCHANGED <<walk, entry_num, all_cards, deck_result, overflow_checks>>
    /\ UNCHANGED session_vars
    /\ UNCHANGED cloze_vars
    /\ UNCHANGED cache_vars

\* An entry on which the walk, read_to_string or extract_frontmatter
\* fails: the ? returns the error from parse_deck.
DeckOpenFail ==
    /\ deck_pc = "walk"
    /\ entry_num < Len(walk)
    /\ \E o \in {CurrentOpen} :
           /\ o.kind = "Err"
           /\ deck_result' = o
    /\ deck_pc' = "done"
    /\ UNCHANGED <<walk, entry_num, all_cards, overflow_checks>>
    /\ UNCHANGED parse_vars
    /\ UNCHANGED session_vars
    /\ UNCHANGED cloze_vars
    /\ UNCHANGED cache_vars

\* A parse that returned an error and is dropped: the for loop goes on.
DeckParseDropped ==
    /\ deck_pc = "parse"
    /\ pc = "done"
    /\ result.kind # "Ok"
    /\ entry_num' = entry_num + 1
    /\ pc' = "idle"
    /\ deck_pc' = "walk"
    /\ UNCHANGED <<walk, all_cards, deck_result, overflow_checks>>
    /\ UNCHANGED <<text, line_num, state, cards, lines, result, parser>>
    /\ UNCHANGED session_vars
    /\ UNCHANGED cloze_vars
    /\ UNCHANGED cache_vars

\* parse returned Ok: all_cards.extend(cards).
DeckParseOk ==
    /\ deck_pc = "parse"
    /\ pc = "done"
    /\ result.kind = "Ok"
    /\ all_cards' = all_cards \o result.value
    /\ entry_num' = entry_num + 1
    /\ pc' = "idle"
    /\ deck_pc' = "walk"
    /\ UNCHANGED <<walk, deck_result, overflow_checks>>
    /\ UNCHANGED <<text, line_num, state, cards, lines, result, parser>>
    /\ UNCHANGED session_vars
    /\ UNCHANGED cloze_vars
    /\ UNCHANGED cache_vars

\* parse did not return Ok: the ? returns its error from parse_deck (or the
\* panic unwinds).
DeckParseFail ==
    /\ deck_pc = "parse"
    /\ pc = "done"
    /\ result.kind # "Ok"
    /\ deck_result' = Reported(result)
    /\ pc' = "idle"
    /\ deck_pc' = "done"
    /\ UNCHANGED <<walk, entry_num, all_cards, overflow_checks>>
    /\ UNCHANGED <<text, line_num, state, cards, lines, result, parser>>
    /\ UNCHANGED session_vars
    /\ UNCHANGED cloze_vars
    /\ UNCHANGED cache_vars

\* After the last entry: sort, dedup, return.
DeckFinish ==
    /\ deck_pc = "walk"
    /\ entry_num = Len(walk)
    /\ deck_result' = deck_finish(all_cards)
    /\ deck_pc' = "done"
    /\ UNCHANGED <<walk, entry_num, all_cards, overflow_checks>>
    /\ UNCHANGED parse_vars
    /\ UNCHANGED session_vars
    /\ UNCHANGED cloze_vars
    /\ UNCHANGED cache_vars

DeckNext ==
    \/ DeckSkipEntry
    \/ DeckParseEntry
    \/ DeckOpenFail
    \/ DeckParseOk
    \/ DeckParseFail
    \/ DeckFinish
    \/ ParseLineOk
    \/ ParseLineFail
    \/ ParseFinalizeOk
    \/ ParseFinalizeFail
    \/ ParseDedup

SpecDeck == DeckInit /\ [][DeckNext]_vars

\* The stepwise parse_deck returns what the recursive parse_deck computes.
DeckAgrees ==
    deck_pc \in {"done", "session"} => deck_result = parse_deck(walk)

\* The longest text of a file whose frontmatter is read, in lines.
MaxFrontLines == 4

FrontInit ==
    \* The files whose frontmatter is read: up to MaxFrontLines lines, which
    \* are delimiters (one before a "\r"), a name, an empty name, and a
    \* card, joined by "\n", with or without a final line ending; under a
    \* name that is valid Unicode and under one that is not.  And each entry
    \* of the catalog on its own.
    LET FrontLines ==
            { Dashes,
              <<"-", "-", "-", "\r">>,
              <<"n", "a", "m", "e", "=", "\"", "D", "\"">>,
              <<"n", "a", "m", "e", "=", "\"", "\"">>,
              <<"C", ":", "|", "|", "a", "|", "|">> }
        FrontTexts ==
            { Join(ls, <<"\n">>) \o e :
                ls \in UNION { [1..n -> FrontLines] : n \in 0..MaxFrontLines },
                e \in { <<>>, <<"\n">> } }
        FrontPaths == { <<"a", ".", "m", "d">>, <<Undecodable, ".", "m", "d">> }
    IN
    /\ overflow_checks \in BOOLEAN
    /\ walk \in { <<File(path, Ok(t))>> : path \in FrontPaths, t \in FrontTexts }
               \cup { <<entry>> : entry \in EntryCatalog }
    /\ entry_num = 0
    /\ all_cards = <<>>
    /\ deck_result = None
    /\ deck_pc = "walk"
    /\ text = <<>>
    /\ lines = <<>>
    /\ pc = "idle"
    /\ line_num = 0
    /\ state = Initial
    /\ cards = <<>>
    /\ result = None
    /\ parser = TestParser
    /\ SessionIdle
    /\ cache = CacheNew
    /\ cache_calls = <<>>
    /\ ClozeIdle

SpecFront == FrontInit /\ [][DeckNext]_vars

(***************************************************************************)
(* The drill session (src/src/cmd/drill/post.rs and cache.rs): the handler *)
(* of the actions of the review form.  A handler holds the mutex of        *)
(* ServerState.mutable from its first statement to its last, so each       *)
(* action is one step; Shutdown releases it before it locks shutdown_tx,   *)
(* so it is two.                                                           *)
(***************************************************************************)

\* How many timestamps a session takes before the model stops it.
MaxClock == 2

\* How many Shutdown handlers wait for shutdown_tx at once.
MaxShutdowns == 2

\* Action: the actions that Action::grade maps to a Grade.  The model draws
\* two of the four: Forgot, after which the card is repeated, and Good, after
\* which it is not.
Grades == {"Forgot", "Good"}

\* update_performance: the ReviewedPerformance of a performance graded at
\* reviewed_at.
update_performance(performance, grade, reviewed_at) ==
    \* The grades a performance went through: what stands for the values the
    \* scheduler derives from them.
    LET ScheduleOf(performance0) ==
            IF performance0.kind = "New" THEN <<>> ELSE performance0.performance.schedule
    IN
    [last_reviewed_at |-> reviewed_at,
     schedule |-> Append(ScheduleOf(performance), grade),
     review_count |-> Len(ScheduleOf(performance)) + 1]

\* The cache that holds every card of cs with the performance of perf.
RECURSIVE CacheOf(_, _, _)
CacheOf(cs, perf, changes) ==
    IF cs = <<>> THEN changes
    ELSE CacheOf(Tail(cs), perf,
                 IF CardHash(Head(cs)) \in DOMAIN changes THEN changes
                 ELSE CacheInsert(changes, CardHash(Head(cs)),
                                  perf[CardHash(Head(cs))]).value)

\* Review::should_repeat: a card graded Forgot or Hard comes back at the
\* end of the queue.
should_repeat(review) == review.grade \in {"Forgot", "Hard"}

\* The Review of a card graded at reviewed_at.
Review(card, reviewed_at, grade, performance) ==
    [card |-> card, reviewed_at |-> reviewed_at, grade |-> grade,
     performance |-> performance]

\* Review::into_record: the row of a review, which names the card by its
\* hash.
into_record(review) ==
    [card_hash |-> CardHash(review.card), reviewed_at |-> review.reviewed_at,
     grade |-> review.grade, performance |-> review.performance]

\* db.get_card_performance.
get_card_performance(db, card_hash, fault) ==
    \* An error of the database.
    LET DbError(call) == Err(ErrorReport([db |-> call]))
    IN
    IF fault = "get_card_performance" \/ card_hash \notin DOMAIN db.performance
    THEN DbError("get_card_performance")
    ELSE Ok(db.performance[card_hash])

\* db.save_session.
save_session(db, started_at, ended_at, records) ==
    [db EXCEPT !.sessions =
        Append(@, [started_at |-> started_at, ended_at |-> ended_at,
                   reviews |-> records])]

\* db.update_card_performance, for the entries of the cache that the loop
\* of finish_session reaches.
update_card_performance(db, changes, written) ==
    [db EXCEPT !.performance =
        [h \in DOMAIN @ |-> IF h \in written THEN changes[h] ELSE @[h]]]

\* ServerState.session_started_at.
session_started_at == 0

\* A finish_session that sets finished_at and saves nothing.
finish_session_marking(m, ended_at, fault, written) ==
    [m EXCEPT !.finished_at = Some(ended_at)]

\* finish_session at the time ended_at.  A save_session that fails returns
\* before anything changes; an update_card_performance that fails returns
\* from the loop with the entries `written` stored, and the order of the
\* loop is that of a HashMap, so they are any of the entries but not all.
finish_session(m, ended_at, fault, written) ==
    \* The loop of finish_session over the cache, as far as the entries
    \* written.
    LET PerformanceWritten(m1, written0) ==
            [m1 EXCEPT !.db = update_card_performance(@, m1.cache, written0)]
    IN
    \* finish_session up to the assignment of finished_at: the session and the
    \* records of its reviews are saved.
    LET SessionSaved(m0, ended_at0) ==
            [m0 EXCEPT !.db = save_session(@, session_started_at, ended_at0,
                                 [k \in 1..Len(m0.reviews) |-> into_record(m0.reviews[k])]),
                      !.finished_at = Some(ended_at0)]
    IN
    IF fault = "save_session" THEN m
    ELSE IF fault = "update_card_performance" /\ m.cache # CacheNew
    THEN PerformanceWritten(SessionSaved(m, ended_at), written)
    ELSE PerformanceWritten(SessionSaved(m, ended_at), DOMAIN m.cache)

\* The sets of entries an update_card_performance that fails may have
\* left written.
WrittenBefore(m, fault) ==
    IF fault = "update_card_performance" /\ m.cache # CacheNew
    THEN SUBSET (DOMAIN m.cache) \ {DOMAIN m.cache}
    ELSE {DOMAIN m.cache}

\* An Undo that stores the cache in the database.
undo_persisting(m, fault) ==
    [m EXCEPT !.db = update_card_performance(@, m.cache, DOMAIN m.cache)]

\* An Undo that puts the card back at the front and leaves the copy that
\* a repeat had pushed at the back.
undo_front_only(m, fault) ==
    IF m.reviews = <<>> THEN m
    ELSE [m EXCEPT !.reviews = SubSeq(@, 1, Len(@) - 1),
                   !.cards = <<m.reviews[Len(m.reviews)].card>> \o @,
                   !.finished_at = <<>>,
                   !.reveal = FALSE]

\* Action::Undo.
undo(m, fault) ==
    \* The last element of a non-empty Vec.
    LET Last(v) == v[Len(v)]
    IN
    \* Action::Undo, second half: the cache entry of the card is set to what
    \* the database holds; either ? returns with the first half done.
    LET UndoRestored(m3, hash, performance) ==
            IF performance.kind # "Ok" THEN m3
            ELSE IF CacheUpdate(m3.cache, hash, performance.value).kind # "Ok" THEN m3
            ELSE [m3 EXCEPT !.cache = CacheUpdate(@, hash, performance.value).value,
                           !.finished_at = <<>>,
                           !.reveal = FALSE]
    IN
    \* Action::Undo, first half: the last review is popped, the copy that a
    \* repeat had pushed is removed, and the card is back at the front.
    LET UndoPopped(m2, last_review) ==
            \* A Vec without its last element: what Vec::pop leaves, also of an empty
            \* Vec.
            LET Pop(v) == SubSeq(v, 1, Len(v) - 1)
            IN
            [m2 EXCEPT !.reviews = Pop(@),
                      !.cards = <<last_review.card>> \o
                                    (IF should_repeat(last_review) THEN Pop(@) ELSE @)]
    IN
    IF m.reviews = <<>> THEN m
    ELSE UndoRestored(UndoPopped(m, Last(m.reviews)),
                      CardHash(Last(m.reviews).card),
                      get_card_performance(m.db, CardHash(Last(m.reviews).card),
                                           fault))

\* A grade branch that makes the review and leaves the queue as it is.
grade_front_in_place(m, grade, reviewed_at) ==
    [done |-> TRUE,
     mutable |-> [m EXCEPT !.reviews =
                               Append(@, Review(Head(m.cards), reviewed_at, grade,
                                          update_performance(
                                              m.cache[CardHash(Head(m.cards))],
                                              grade, reviewed_at))),
                           !.reveal = FALSE]]

\* The grade branch on a queue that is not empty, as far as the test for
\* the last card: [done |-> whether it got there, mutable |-> the state].
\* The ? of cache.get returns after the card has left the queue.
grade_front(m, grade, reviewed_at) ==
    \* The grade branch after cache.get: the review is made, the cache entry
    \* becomes its performance, a card to repeat goes to the back of the queue.
    LET Graded(m4, card, review) ==
            [m4 EXCEPT !.cache = CacheUpdate(@, CardHash(card),
                                            Reviewed(review.performance)).value,
                      !.cards = IF should_repeat(review)
                                THEN Append(Tail(@), card) ELSE Tail(@),
                      !.reviews = Append(@, review),
                      !.reveal = FALSE]
    IN
    IF CacheGet(m.cache, CardHash(Head(m.cards))).kind # "Ok"
    THEN [done |-> FALSE, mutable |-> [m EXCEPT !.cards = Tail(@)]]
    ELSE [done |-> TRUE,
          mutable |-> Graded(m, Head(m.cards),
                          Review(Head(m.cards), reviewed_at, grade,
                                 update_performance(
                                     CacheGet(m.cache, CardHash(Head(m.cards))).value,
                                     grade, reviewed_at)))]

\* The drill command once parse_deck has returned cards, on a database
\* that holds no review of them: every card is new and due, so the queue
\* is the deck and the cache holds the performance of each of its cards.
start_server ==
    /\ deck_pc = "done"
    /\ deck_result.kind = "Ok"
    /\ deck_result.value # <<>>
    /\ \E fresh \in {[h \in {CardHash(deck_result.value[k]) :
                                k \in 1..Len(deck_result.value)} |-> New]} :
           mutable' = [reveal |-> FALSE,
                       cards |-> deck_result.value,
                       reviews |-> <<>>,
                       finished_at |-> <<>>,
                       cache |-> CacheOf(deck_result.value, fresh, CacheNew),
                       db |-> [performance |-> fresh, sessions |-> <<>>]]
    /\ poisoned' = FALSE
    /\ shutdown_tx' = Some("tx")
    /\ shutdown_pending' = 0
    /\ shutdown_rx' = 0
    /\ clock' = session_started_at + 1
    /\ deck_pc' = "session"
    /\ UNCHANGED <<walk, entry_num, all_cards, deck_result, overflow_checks>>
    /\ UNCHANGED parse_vars
    /\ UNCHANGED cloze_vars
    /\ UNCHANGED cache_vars

\* A handler has locked ServerState.mutable.
Locked == deck_pc = "session" /\ ~poisoned

\* An Action::Reveal that turns the flag over.
RevealToggling ==
    /\ Locked
    /\ mutable' = [mutable EXCEPT !.reveal = ~@]
    /\ UNCHANGED <<poisoned, shutdown_tx, shutdown_pending, shutdown_rx, clock>>
    /\ UNCHANGED <<deck_vars, parse_vars, overflow_checks>>
    /\ UNCHANGED cloze_vars
    /\ UNCHANGED cache_vars

\* Action::Reveal.
Reveal ==
    /\ Locked
    /\ mutable' = [mutable EXCEPT !.reveal = TRUE]
    /\ UNCHANGED <<poisoned, shutdown_tx, shutdown_pending, shutdown_rx, clock>>
    /\ UNCHANGED <<deck_vars, parse_vars, overflow_checks>>
    /\ UNCHANGED cloze_vars
    /\ UNCHANGED cache_vars

\* Action::Undo.
Undo ==
    /\ Locked
    /\ \E fault \in {"none", "get_card_performance"} :
           mutable' = undo(mutable, fault)
    /\ UNCHANGED <<poisoned, shutdown_tx, shutdown_pending, shutdown_rx, clock>>
    /\ UNCHANGED <<deck_vars, parse_vars, overflow_checks>>
    /\ UNCHANGED cloze_vars
    /\ UNCHANGED cache_vars

\* Action::End.
End ==
    /\ Locked
    /\ clock <= MaxClock
    /\ \E fault \in {"none", "save_session", "update_card_performance"} :
           \E written \in WrittenBefore(mutable, fault) :
               mutable' = finish_session(mutable, clock, fault, written)
    /\ clock' = clock + 1
    /\ UNCHANGED <<poisoned, shutdown_tx, shutdown_pending, shutdown_rx>>
    /\ UNCHANGED <<deck_vars, parse_vars, overflow_checks>>
    /\ UNCHANGED cloze_vars
    /\ UNCHANGED cache_vars

\* An Action::Shutdown that goes on to the sender whether or not the session
\* is finished.
ShutdownUnchecked ==
    /\ Locked
    /\ shutdown_pending < MaxShutdowns
    /\ shutdown_pending' = shutdown_pending + 1
    /\ UNCHANGED <<mutable, poisoned, shutdown_tx, shutdown_rx, clock>>
    /\ UNCHANGED <<deck_vars, parse_vars, overflow_checks>>
    /\ UNCHANGED cloze_vars
    /\ UNCHANGED cache_vars

\* Action::Shutdown up to drop(mutable): when the session is finished the
\* handler releases the mutex and goes on to the sender; when it is not,
\* the handler returns.
Shutdown ==
    /\ Locked
    /\ IF mutable.finished_at # <<>>
       THEN /\ shutdown_pending < MaxShutdowns
            /\ shutdown_pending' = shutdown_pending + 1
       ELSE UNCHANGED shutdown_pending
    /\ UNCHANGED <<mutable, poisoned, shutdown_tx, shutdown_rx, clock>>
    /\ UNCHANGED <<deck_vars, parse_vars, overflow_checks>>
    /\ UNCHANGED cloze_vars
    /\ UNCHANGED cache_vars

\* An Action::Shutdown that sends through the sender and leaves it in its
\* cell.
ShutdownSendKeeping ==
    /\ shutdown_pending > 0
    /\ shutdown_pending' = shutdown_pending - 1
    /\ shutdown_tx' = shutdown_tx
    /\ shutdown_rx' = IF shutdown_tx # <<>> THEN shutdown_rx + 1 ELSE shutdown_rx
    /\ UNCHANGED <<mutable, poisoned, clock>>
    /\ UNCHANGED <<deck_vars, parse_vars, overflow_checks>>
    /\ UNCHANGED cloze_vars
    /\ UNCHANGED cache_vars

\* Action::Shutdown from the lock of shutdown_tx: the sender is taken out
\* of its cell and, when there was one, the signal is sent.
ShutdownSend ==
    /\ shutdown_pending > 0
    /\ shutdown_pending' = shutdown_pending - 1
    /\ shutdown_tx' = <<>>
    /\ shutdown_rx' = IF shutdown_tx # <<>> THEN shutdown_rx + 1 ELSE shutdown_rx
    /\ UNCHANGED <<mutable, poisoned, clock>>
    /\ UNCHANGED <<deck_vars, parse_vars, overflow_checks>>
    /\ UNCHANGED cloze_vars
    /\ UNCHANGED cache_vars

\* Action::Forgot, Hard, Good and Easy.  With reveal unset nothing happens;
\* on an empty queue cards.remove(0) panics with the mutex held; the last
\* card of the queue finishes the session.
Grade ==
    /\ Locked
    /\ \E grade \in Grades :
           IF ~mutable.reveal
           THEN UNCHANGED <<mutable, poisoned, clock>>
           ELSE IF mutable.cards = <<>>
           THEN /\ poisoned' = TRUE
                /\ clock' = clock + 1
                /\ UNCHANGED mutable
           ELSE /\ clock <= MaxClock
                /\ \E g \in {grade_front(mutable, grade, clock)} :
                       IF g.done /\ g.mutable.cards = <<>>
                       THEN /\ \E fault \in {"none", "save_session",
                                           "update_card_performance"} :
                                  \E written \in WrittenBefore(g.mutable, fault) :
                                      mutable' = finish_session(g.mutable, clock + 1,
                                                                fault, written)
                            /\ clock' = clock + 2
                       ELSE /\ mutable' = g.mutable
                            /\ clock' = clock + 1
                /\ UNCHANGED poisoned
    /\ UNCHANGED <<shutdown_tx, shutdown_pending, shutdown_rx>>
    /\ UNCHANGED <<deck_vars, parse_vars, overflow_checks>>
    /\ UNCHANGED cloze_vars
    /\ UNCHANGED cache_vars

\* How many entries the walk of a deck that is drilled has.
MaxDrillFiles == 2

DrillInit ==
    \* The walks of the decks that are drilled: the entries are the two files
    \* that share a card and one of each way in which an entry is passed over
    \* or fails.
    LET DrillWalks ==
            { w \in Walks :
                /\ Len(w) <= MaxDrillFiles
                /\ \A i \in 1..Len(w) :
                      w[i].path \in {<<"a", ".", "m", "d">>, <<"c", ".", "m", "d">>,
                                     <<"d", ".", "m", "d">>, <<"e", ".", "m", "d">>,
                                     <<"h", ".", "m", "d">>, <<"n", ".", "t", "x", "t">>} }
    IN
    DeckInit /\ walk \in DrillWalks

DrillNext ==
    \/ DeckNext
    \/ start_server
    \/ Reveal
    \/ Undo
    \/ End
    \/ Shutdown
    \/ ShutdownSend
    \/ Grade

SpecDrill == DrillInit /\ [][DrillNext]_vars

(***************************************************************************)
(* Cache (src/src/cmd/drill/cache.rs) called directly: any sequence of     *)
(* insert, get and update on a cache that starts empty, one step per call. *)
(***************************************************************************)

\* The most calls made on the cache.
MaxCalls == 3

\* The arguments of the calls: the hashes of two cards, and a performance
\* that is New or Reviewed.
CacheInputs ==
    [card_hash : {ContentHash(Basic(<<"a">>, <<>>)), ContentHash(Basic(<<"b">>, <<>>))},
     performance : {New, Reviewed(update_performance(New, "Good", 0))}]

\* Cache::new(), and no call yet.
CacheInit ==
    /\ cache = CacheNew
    /\ cache_calls = <<>>
    /\ overflow_checks = TRUE
    /\ text = <<>>
    /\ lines = <<>>
    /\ pc = "idle"
    /\ line_num = 0
    /\ state = Initial
    /\ cards = <<>>
    /\ result = None
    /\ parser = TestParser
    /\ walk = <<>>
    /\ entry_num = 0
    /\ all_cards = <<>>
    /\ deck_result = None
    /\ deck_pc = "idle"
    /\ mutable = None
    /\ poisoned = FALSE
    /\ shutdown_tx = <<>>
    /\ shutdown_pending = 0
    /\ shutdown_rx = 0
    /\ clock = 0
    /\ ClozeIdle

\* cache.insert(card_hash, performance)
CacheInsertCall ==
    /\ Len(cache_calls) < MaxCalls
    /\ \E x \in CacheInputs :
          \E r \in {CacheInsert(cache, x.card_hash, x.performance)} :
              /\ cache' = IF r.kind = "Ok" THEN r.value ELSE cache
              /\ cache_calls' =
                    Append(cache_calls,
                           [op |-> "insert", card_hash |-> x.card_hash,
                            performance |-> x.performance, ok |-> r.kind = "Ok"])
    /\ UNCHANGED <<parse_vars, deck_vars, session_vars, cloze_vars, overflow_checks>>

\* cache.get(card_hash)
CacheGetCall ==
    /\ Len(cache_calls) < MaxCalls
    /\ \E x \in CacheInputs :
          \E r \in {CacheGet(cache, x.card_hash)} :
              cache_calls' =
                  Append(cache_calls,
                         [op |-> "get", card_hash |-> x.card_hash,
                          performance |-> IF r.kind = "Ok" THEN r.value ELSE None,
                          ok |-> r.kind = "Ok"])
    /\ UNCHANGED cache
    /\ UNCHANGED <<parse_vars, deck_vars, session_vars, cloze_vars, overflow_checks>>

\* cache.update(card_hash, performance)
CacheUpdateCall ==
    /\ Len(cache_calls) < MaxCalls
    /\ \E x \in CacheInputs :
          \E r \in {CacheUpdate(cache, x.card_hash, x.performance)} :
              /\ cache' = IF r.kind = "Ok" THEN r.value ELSE cache
              /\ cache_calls' =
                    Append(cache_calls,
                           [op |-> "update", card_hash |-> x.card_hash,
                            performance |-> x.performance, ok |-> r.kind = "Ok"])
    /\ UNCHANGED <<parse_vars, deck_vars, session_vars, cloze_vars, overflow_checks>>

CacheNext ==
    \/ CacheInsertCall
    \/ CacheGetCall
    \/ CacheUpdateCall

SpecCache == CacheInit /\ [][CacheNext]_vars

(***************************************************************************)
(* Properties of parse_deck and of the card hash                           *)
(***************************************************************************)

\* The hashes of the cards cs.
HashesOf(cs) == {CardHash(cs[k]) : k \in 1..Len(cs)}

\* The cards of parsing one entry on its own: none for an entry that is
\* passed over.
FileCards(entry) ==
    IF visit_entry(entry).kind = "Ok" THEN visit_entry(entry).value ELSE <<>>

\* parse_deck has returned Ok.
DeckLoaded == deck_pc = "done" /\ deck_result.kind = "Ok"

\* C6: when every file parses, the sequence parse_deck returns is strictly
\* ascending by card hash, and its set of hashes is the union of the hashes
\* of the cards of each file parsed on its own.
C6_SortedUnion ==
    DeckLoaded =>
        /\ \A i \in 1..(Len(deck_result.value) - 1) :
              HashLess(CardHash(deck_result.value[i]),
                       CardHash(deck_result.value[i + 1]))
        /\ HashesOf(deck_result.value) =
              UNION {HashesOf(FileCards(walk[k])) : k \in 1..Len(walk)}

\* C6 witness: parse_deck returned at least two cards, after a sort that
\* had to move a card and a dedup that dropped one.
C6_Witness ==
    /\ DeckLoaded
    /\ Len(deck_result.value) >= 2
    /\ Len(all_cards) > Len(deck_result.value)
    /\ \E i \in 1..(Len(all_cards) - 1) :
           HashLess(CardHash(all_cards[i + 1]), CardHash(all_cards[i]))

\* The walk w in the order p of its indices.
Reordered(w, p) == [i \in 1..Len(w) |-> w[p[i]]]

\* The cards collected with one hash all have one content.
EqualHashesEqualContents ==
    \A i, j \in 1..Len(all_cards) :
        CardHash(all_cards[i]) = CardHash(all_cards[j]) =>
           all_cards[i].content = all_cards[j].content

\* C7: for the same files, parse_deck returns the same sequence of cards
\* (hash, deck name, file path and range of each) whatever the order in
\* which the walk visits them, including when two files hold cards with
\* equal hashes.  It is stated for the walks whose equal hashes come from
\* equal contents, so that what refutes it is the order of the walk alone.
C7_WalkOrderIndependent ==
    (DeckLoaded /\ EqualHashesEqualContents) =>
        \A p \in Permutations(1..Len(walk)) :
            parse_deck(Reordered(walk, p)) = deck_result

\* The entry about to be visited is a deck file that cannot be read.
ReadFails ==
    /\ CurrentEntry.walk_ok
    /\ IsDeckFile(CurrentEntry)
    /\ CurrentEntry.read.kind = "Err"

\* The entry about to be visited is a deck file whose frontmatter
\* extraction fails.
FrontmatterFails ==
    /\ CurrentEntry.walk_ok
    /\ IsDeckFile(CurrentEntry)
    /\ CurrentEntry.read.kind = "Ok"
    /\ extract_frontmatter(CurrentEntry.read.value).kind = "Err"

\* parse_deck returns now, with no cards: the loop does not advance and
\* the value returned has no card field.
ReturnsNoCards ==
    /\ deck_pc' = "done"
    /\ "value" \notin DOMAIN deck_result'
    /\ entry_num' = entry_num
    /\ all_cards' = all_cards

\* C8: when reading a visited file, extracting its frontmatter or parsing
\* it fails (or the walk itself fails), parse_deck returns that error at
\* once and no cards: the cards of the files before stay behind in
\* all_cards, no entry after the failing one is visited, and parse_deck
\* takes no step after it has returned.
C8_DeckFailFast ==
    [][/\ deck_pc # "done"
       /\ (deck_pc = "walk" /\ entry_num < Len(walk) /\ ~CurrentEntry.walk_ok) =>
             ReturnsNoCards /\ deck_result'.kind = "Err"
       /\ (deck_pc = "walk" /\ entry_num < Len(walk) /\ ReadFails) =>
             /\ ReturnsNoCards
             /\ deck_result' = [kind |-> "Err",
                                error |-> [report |-> CurrentEntry.read.error]]
       /\ (deck_pc = "walk" /\ entry_num < Len(walk) /\ FrontmatterFails) =>
             /\ ReturnsNoCards
             /\ deck_result' = extract_frontmatter(CurrentEntry.read.value)
       /\ (deck_pc = "parse" /\ pc = "done" /\ result.kind # "Ok") =>
             /\ ReturnsNoCards
             /\ deck_result' = IF result.kind = "Err"
                               THEN [kind |-> "Err",
                                     error |-> [report |-> result.error]]
                               ELSE result]_vars

\* C8 witness: parse_deck returned an error after it had collected cards
\* and before it visited the last entries of the walk.
C8_Witness ==
    /\ deck_pc = "done"
    /\ deck_result.kind = "Err"
    /\ "value" \notin DOMAIN deck_result
    /\ all_cards # <<>>
    /\ entry_num + 1 < Len(walk)

\* C9: two card contents that differ in variant or in any field have
\* different hashes, so that the dedup of parse_deck keeps a card of every
\* content that was collected.
C9_DistinctContents ==
    /\ \A i, j \in 1..Len(all_cards) :
          all_cards[i].content # all_cards[j].content =>
             CardHash(all_cards[i]) # CardHash(all_cards[j])
    /\ DeckLoaded =>
          \A k \in 1..Len(all_cards) :
             \E i \in 1..Len(deck_result.value) :
                deck_result.value[i].content = all_cards[k].content

\* The cards a sequence-valued Result holds: none unless it is Ok.
CardsOf(r) == IF r.kind = "Ok" THEN {r.value[k] : k \in 1..Len(r.value)} ELSE {}

\* The cards of the session: those of the queue and those of the reviews.
SessionCards ==
    IF deck_pc # "session" THEN {}
    ELSE {mutable.cards[k] : k \in 1..Len(mutable.cards)}
            \cup {mutable.reviews[k].card : k \in 1..Len(mutable.reviews)}

\* Every card in use: in the Vecs of parse and parse_deck, in the values
\* they return, and in the queue and the reviews of the session.
CardsInUse ==
    {cards[k] : k \in 1..Len(cards)} \cup CardsOf(result)
        \cup {all_cards[k] : k \in 1..Len(all_cards)} \cup CardsOf(deck_result)
        \cup SessionCards

\* C10: at every point of parse, of parse_deck and of the session that
\* drills the deck (through dedup, sort, dedup_by_key, and the removals,
\* clones, pushes and insertions of the queue), the hash of every card is
\* the hash of its content, and cards with equal content have equal hashes
\* whatever their deck name, file path and range.
C10_HashCached ==
    /\ \A c \in CardsInUse : CardHash(c) = ContentHash(c.content)
    /\ \A c1, c2 \in CardsInUse : c1.content = c2.content => CardHash(c1) = CardHash(c2)

\* C10 witness: a session over a deck that was collected from two cards of
\* equal content and hash that differ in deck name, file path and range;
\* two cards were graded Forgot, so that each was removed from the front of
\* the queue, cloned into its review and pushed to the back.
C10_Witness ==
    /\ deck_pc = "session"
    /\ \E i, j \in 1..Len(all_cards) :
          /\ all_cards[i].content = all_cards[j].content
          /\ CardHash(all_cards[i]) = CardHash(all_cards[j])
          /\ all_cards[i].deck_name # all_cards[j].deck_name
          /\ all_cards[i].file_path # all_cards[j].file_path
          /\ all_cards[i].range # all_cards[j].range
    /\ Len(mutable.reviews) = 2
    /\ Len(mutable.cards) = 2
    /\ \A k \in 1..2 : mutable.cards[k] = mutable.reviews[k].card


(***************************************************************************)
(* Properties of the cloze tokenizer and of the family hash                *)
(***************************************************************************)

\* Card::family_hash
CardFamilyHash(card) == FamilyHash(card.content)

\* C11: of the cards parse has emitted, the Cloze cards of one block (equal
\* ranges) have one family hash, and so do any two Cloze cards with the same
\* text whatever their start and end; a Cloze card has a family hash and a
\* Basic card has none.
C11_FamilyHash ==
    \A i, j \in 1..Len(cards) :
        /\ cards[i].content.type = "Basic" => CardFamilyHash(cards[i]) = <<>>
        /\ cards[i].content.type = "Cloze" => Len(CardFamilyHash(cards[i])) = 1
        /\ (/\ cards[i].content.type = "Cloze"
            /\ cards[j].content.type = "Cloze"
            /\ \/ cards[i].range = cards[j].range
               \/ cards[i].content.text = cards[j].content.text)
           => CardFamilyHash(cards[i]) = CardFamilyHash(cards[j])

\* C11 witness: parse has emitted two Cloze cards of one block with
\* different deletions, and a Basic card.
C11_Witness ==
    /\ pc = "dedup"
    /\ \E i, j, k \in 1..Len(cards) :
          /\ cards[i].content.type = "Cloze"
          /\ cards[j].content.type = "Cloze"
          /\ cards[i].range = cards[j].range
          /\ cards[i].content.start # cards[j].content.start
          /\ cards[k].content.type = "Basic"

\* The indexes in `tokens` of the recognised deletions.
Deletions == {k \in 1..Len(cloze_tokens) : cloze_tokens[k].is_cloze}

\* parse_cloze_cards has returned a Vec of cards.
ClozeEmitted == cloze_pc = "done" /\ cloze_result.kind = "Ok"

\* C12 as stated, for the calls that do not panic: a block with n >= 1
\* recognised deletions yields exactly n cards in scan order, which share the
\* clean text, the range, the deck name and the file path, and differ
\* pairwise in (start, end) and in their hashes.
C12_OneCardPerDeletion ==
    (cloze_pc = "done" /\ Deletions # {} /\ cloze_result.kind # "Panic") =>
        /\ cloze_result.kind = "Ok"
        /\ Len(cloze_result.value) = Cardinality(Deletions)
        /\ \A k \in 1..Len(cloze_result.value) :
              /\ cloze_result.value[k].content.type = "Cloze"
              /\ cloze_result.value[k].content.text = CleanOf(cloze_tokens)
              /\ cloze_result.value[k].range = ClozeRange
              /\ cloze_result.value[k].deck_name = parser.deck_name
              /\ cloze_result.value[k].file_path = parser.file_path
        /\ \A i, j \in 1..Len(cloze_result.value) :
              /\ i < j => cloze_result.value[i].content.start
                             <= cloze_result.value[j].content.start
              /\ i # j =>
                    /\ <<cloze_result.value[i].content.start,
                         cloze_result.value[i].content.end>>
                          # <<cloze_result.value[j].content.start,
                              cloze_result.value[j].content.end>>
                    /\ CardHash(cloze_result.value[i]) # CardHash(cloze_result.value[j])

\* C13 as stated: no call of parse_cloze_cards underflows, and every Cloze
\* card it returns has 0 <= start <= end < byte length of its text.
C13_SpanInText ==
    cloze_pc = "done" =>
        /\ cloze_result.kind # "Panic"
        /\ cloze_result.kind = "Ok" =>
              \A k \in 1..Len(cloze_result.value) :
                  /\ 0 <= cloze_result.value[k].content.start
                  /\ cloze_result.value[k].content.start
                        <= cloze_result.value[k].content.end
                  /\ cloze_result.value[k].content.end
                        < Len(cloze_result.value[k].content.text)

\* The scan of the cloze block accumulated in the state recognises no
\* deletion.
NoDeletion ==
    \A k \in 1..Len(ScanTokens(Trim(state.text), 1, <<>>)) :
        ~ScanTokens(Trim(state.text), 1, <<>>)[k].is_cloze

\* The index of the line with the C: tag of the block being read: the last
\* Cloze line before the line parse is at.
TagLine ==
    CHOOSE k \in 0..(line_num - 1) :
        /\ is_cloze(lines[k + 1])
        /\ \A j \in (k + 1)..(line_num - 1) : ~is_cloze(lines[j + 1])

\* C14: when a cloze block without a recognised deletion is finished, by a
\* Question, Cloze or Separator line or by the end of the file, parse
\* returns the error "Cloze card must contain at least one cloze deletion."
\* located at the line of the block's C: tag.
C14_NoDeletionError ==
    [][(/\ pc = "lines"
        /\ state.kind = "ReadingCloze"
        /\ NoDeletion
        /\ line_num < Len(lines) => CurrentLine.kind \in Terminators)
       => /\ pc' = "done"
          /\ result' = [kind |-> "Err",
                        error |-> [message |->
                            "Cloze card must contain at least one cloze deletion.",
                            file_path |-> parser.file_path,
                            line_num |-> TagLine]]]_vars

\* C14 witness: parse returned the zero-deletion error for a block of two
\* lines that a third line ended; the error is located two lines before it.
C14_Witness ==
    /\ pc = "done"
    /\ result.kind = "Err"
    /\ result.error.message = "Cloze card must contain at least one cloze deletion."
    /\ line_num = 2
    /\ result.error.line_num = 0

RECURSIVE KeptText(_, _)
\* The text s from cursor i on with the "||" pairs of the recognised
\* deletions removed and every other byte kept: the captured slice of each
\* token, and each byte at which no token is recognised.
KeptText(s, i) ==
    LET KeptStep(s12, i11, t) ==
            IF t.next # 0
            THEN SubSeq(s12, t.lo, t.hi) \o KeptText(s12, t.next)
            ELSE <<s12[i11]>> \o KeptText(s12, i11 + 1)
    IN
    IF i > Len(s) THEN <<>> ELSE KeptStep(s, i, next_token(s, i))

\* C15 as stated: the clean text of the cards of a block is the trimmed
\* body with the "||" pairs of the recognised deletions removed, every other
\* byte kept in its place, the bytes skipped at an unmatched delimiter
\* included.  (Blocks whose deletions all have inner content.)
C15_CleanKeepsBytes ==
    (ClozeEmitted /\ \A d \in Deletions : cloze_tokens[d].slice # <<>>) =>
        \A k \in 1..Len(cloze_result.value) :
            cloze_result.value[k].content.text = KeptText(Trimmed, 1)

\* The spans around the content x: inline code, inline math, block math and
\* a code block fenced by three backticks.
SpansOf(x) ==
    { <<Backtick>> \o x \o <<Backtick>>,
      <<"$">> \o x \o <<"$">>,
      <<"$", "$">> \o x \o <<"$", "$">>,
      <<Backtick, Backtick, Backtick, "\n">> \o x
          \o <<"\n", Backtick, Backtick, Backtick>> }

\* C16 as stated: a "||" inside a fenced code block, an inline code span, an
\* inline math span or a block math span opens and closes no deletion: a
\* block that is such a span has no deletion, a deletion around such a span
\* captures the span verbatim, and the inner content of a deletion holds no
\* deletion.
C16_SpansOpaque ==
    cloze_pc = "done" =>
        /\ \A x \in { <<"|", "|">>, <<"|", "|", "b", "|", "|">> } :
              \A span \in SpansOf(x) :
                  /\ Trimmed = span => Deletions = {}
                  /\ Trimmed = <<"|", "|">> \o span \o <<"|", "|">> =>
                        /\ Cardinality(Deletions) = 1
                        /\ \A d \in Deletions : cloze_tokens[d].slice = span
        /\ \A d \in Deletions :
              \A k \in 1..Len(ScanTokens(cloze_tokens[d].slice, 1, <<>>)) :
                  ~ScanTokens(cloze_tokens[d].slice, 1, <<>>)[k].is_cloze


(***************************************************************************)
(* Properties of extract_frontmatter and of the deck name                  *)
(***************************************************************************)

\* The name key of the frontmatter of the file parse_deck is parsing: <<>>
\* when the file has no frontmatter or the frontmatter has no name.
FrontmatterName == extract_frontmatter(CurrentEntry.read.value).value.name

\* The deck name the spec gives the file parse_deck is parsing: the
\* frontmatter name if present and not empty, otherwise the base name
\* without extension, otherwise "None".
SpecDeckName ==
    IF FrontmatterName # <<>> /\ FrontmatterName[1] # <<>> THEN FrontmatterName[1]
    ELSE IF \A k \in 1..Len(CurrentEntry.path) : CurrentEntry.path[k] # Undecodable
    THEN SubSeq(CurrentEntry.path, 1, Len(CurrentEntry.path) - 3)
    ELSE <<"N", "o", "n", "e">>

\* C17 as stated: while a file is parsed, the deck name of its parser and of
\* every card emitted from it is the frontmatter name if that key is present
\* and not empty, otherwise the file's base name without extension,
\* otherwise "None".
C17_DeckName ==
    deck_pc = "parse" =>
        /\ parser.deck_name = SpecDeckName
        /\ \A k \in 1..Len(cards) : cards[k].deck_name = SpecDeckName

\* The for loop of parse_deck is at a deck file that was read.
AtDeckFile ==
    /\ deck_pc = "walk"
    /\ entry_num < Len(walk)
    /\ CurrentEntry.walk_ok
    /\ IsDeckFile(CurrentEntry)
    /\ CurrentEntry.read.kind = "Ok"

\* The text of the file the for loop of parse_deck is at.
FileText == CurrentEntry.read.value

\* The first line of the text t trims to "---".
Opened(t) == Lines(t) # <<>> /\ Trim(Lines(t)[1]) = Dashes

\* The 1-based indexes of the lines of t after the first that trim to "---".
ClosingLines(t) == {k \in 2..Len(Lines(t)) : Trim(Lines(t)[k]) = Dashes}

\* The first of them.
ClosingLine(t) == CHOOSE k \in ClosingLines(t) : \A j \in ClosingLines(t) : k <= j

\* c is the text t from immediately after the line break of its line n on:
\* a suffix of t, behind a prefix that is the first n lines of t and ends
\* with the line break (or is all of t).
IsRestAfterLine(c, t, n) ==
    /\ Len(c) <= Len(t)
    /\ c = SubSeq(t, Len(t) - Len(c) + 1, Len(t))
    /\ Lines(SubSeq(t, 1, Len(t) - Len(c))) = SubSeq(Lines(t), 1, n)
    /\ c # <<>> => t[Len(t) - Len(c)] = "\n"

\* C18 as stated: for a file whose first line does not trim to "---",
\* extract_frontmatter returns the name None and the text unchanged; for a
\* file with an opening and a closing delimiter it returns the suffix of the
\* text that starts immediately after the line break of the first later
\* line that trims to "---".
C18_ClosedYieldsContent ==
    [][AtDeckFile =>
        IF ~Opened(FileText)
        THEN /\ deck_pc' = "parse"
             /\ text' = FileText
             /\ FrontmatterName = <<>>
        ELSE ClosingLines(FileText) # {} =>
                /\ deck_pc' = "parse"
                /\ IsRestAfterLine(text', FileText, ClosingLine(FileText))]_vars

\* C18: for a file whose first line does not trim to "---",
\* extract_frontmatter returns the name None and the text unchanged; for a
\* file with an opening and a closing delimiter it returns the suffix of the
\* text that starts immediately after the line break of the first later
\* line that trims to "---" (empty if that line is the last), unaltered, or
\* it fails because the header between them does not parse.
C18_FrontmatterContent ==
    [][AtDeckFile =>
        IF ~Opened(FileText)
        THEN /\ deck_pc' = "parse"
             /\ text' = FileText
             /\ FrontmatterName = <<>>
        ELSE ClosingLines(FileText) # {} =>
                IF deck_pc' = "parse"
                THEN IsRestAfterLine(text', FileText, ClosingLine(FileText))
                ELSE /\ deck_pc' = "done"
                     /\ deck_result' = [kind |-> "Err",
                                        error |-> [report |-> [message |->
                                            "Failed to parse TOML frontmatter"]]]]_vars

\* C18 witness: a file with frontmatter is being parsed, and the content
\* handed to parse is a proper suffix of the file that ends with the line
\* ending of the file.
C18_Witness ==
    /\ deck_pc = "parse"
    /\ Opened(FileText)
    /\ text # <<>>
    /\ text[Len(text)] = "\n"
    /\ Len(text) < Len(FileText)

\* The error of extract_frontmatter for a frontmatter that is not closed.
NoClosingError ==
    [kind |-> "Err",
     error |-> [report |-> [message |->
                   "Frontmatter opening '---' found but no closing '---'"]]]

\* C19: for a file whose first line trims to "---" and none of whose later
\* lines does, extract_frontmatter fails with the error that names the
\* missing closing delimiter, and parse_deck returns that error and no
\* cards.
C19_UnclosedFrontmatter ==
    [][(AtDeckFile /\ Opened(FileText) /\ ClosingLines(FileText) = {}) =>
          /\ extract_frontmatter(FileText) = NoClosingError
          /\ deck_pc' = "done"
          /\ deck_result' = NoClosingError
          /\ "value" \notin DOMAIN deck_result']_vars

\* C19 witness: parse_deck returned the error for a file that holds a card
\* behind a frontmatter that is not closed.
C19_Witness ==
    /\ deck_pc = "done"
    /\ deck_result = NoClosingError
    /\ entry_num = 0
    /\ Len(Lines(walk[1].read.value)) = 3
    /\ Lines(walk[1].read.value)[3] = <<"C", ":", "|", "|", "a", "|", "|">>


(***************************************************************************)
(* Properties of Line::read                                                *)
(***************************************************************************)

\* The line the for loop of parse is about to read, as it stands in the
\* text.
RawLine == lines[line_num + 1]

\* The line l begins with the character c and a colon.
Tagged(l, c) == Len(l) >= 2 /\ l[1] = c /\ l[2] = ":"

\* C20: Line::read classifies every line, and as one kind only: Question,
\* Answer or Cloze if and only if its first two characters are "Q:", "A:"
\* or "C:", with the rest of the line trimmed as the body; Separator if and
\* only if it has no tag and trims to "---"; and otherwise, a tag behind
\* white space or in lower case included, Text with the line untrimmed.
C20_LineRead ==
    InLoop =>
        /\ CurrentLine.kind
              \in {"StartQuestion", "StartAnswer", "StartCloze", "Separator", "Text"}
        /\ CurrentLine.kind = "StartQuestion" <=> Tagged(RawLine, "Q")
        /\ CurrentLine.kind = "StartAnswer" <=> Tagged(RawLine, "A")
        /\ CurrentLine.kind = "StartCloze" <=> Tagged(RawLine, "C")
        /\ CurrentLine.kind = "Separator" <=>
              /\ ~\E c \in {"Q", "A", "C"} : Tagged(RawLine, c)
              /\ Trim(RawLine) = <<"-", "-", "-">>
        /\ CurrentLine.kind \in {"StartQuestion", "StartAnswer", "StartCloze"} =>
              CurrentLine.body = Trim(SubSeq(RawLine, 3, Len(RawLine)))
        /\ CurrentLine.kind = "Text" => CurrentLine.body = RawLine

\* C20 witness: parse has read a Question line, whose body was trimmed, and
\* is about to read a Question tag behind white space, which is Text.
C20_Witness ==
    /\ InLoop
    /\ line_num = 1
    /\ lines[1] = <<"Q", ":", " ", "a", " ">>
    /\ state.kind = "ReadingQuestion"
    /\ state.question = <<"a">>
    /\ RawLine = <<" ", "Q", ":", "a">>
    /\ CurrentLine.kind = "Text"
    /\ CurrentLine.body = RawLine


(***************************************************************************)
(* Properties of the Text arms of parse_line                               *)
(***************************************************************************)

\* The current line is one that the table maps to "stay": a Text line, or
\* a Separator line in Initial.
StayLine ==
    \/ CurrentLine.kind = "Text"
    \/ state.kind = "Initial" /\ CurrentLine.kind = "Separator"

\* Every line of the text is a Text or a Separator line.
OnlyTextAndSeparators ==
    \A i \in 1..Len(lines) : LineRead(lines[i]).kind \in {"Text", "Separator"}

\* C21: a Text line leaves the state kind and start_line as they are and
\* emits no card; in ReadingQuestion, ReadingAnswer and ReadingCloze it
\* appends "\n" and the untrimmed line to the field being read and leaves
\* the other fields alone; in Initial a Text or Separator line changes
\* nothing. A text of Text and Separator lines only, the empty text
\* included, yields no card and no error.
C21_TextLine ==
    /\ [][(InLoop /\ StayLine) =>
             /\ pc' = "lines"
             /\ line_num' = line_num + 1
             /\ cards' = cards
             /\ state'.kind = state.kind
             /\ state.kind = "Initial" => state' = state
             /\ state.kind = "ReadingQuestion" =>
                   state' = [state EXCEPT !.question = @ \o <<"\n">> \o RawLine]
             /\ state.kind = "ReadingAnswer" =>
                   state' = [state EXCEPT !.answer = @ \o <<"\n">> \o RawLine]
             /\ state.kind = "ReadingCloze" =>
                   state' = [state EXCEPT !.text = @ \o <<"\n">> \o RawLine]]_vars
    /\ []((pc = "done" /\ OnlyTextAndSeparators) => result = Ok(<<>>))

\* C21 witness: an indented Text line was appended, untrimmed, to the answer
\* of a block that started at line 0.
C21_Witness ==
    /\ pc = "lines"
    /\ line_num = 3
    /\ LineRead(lines[3]).kind = "Text"
    /\ lines[3] = <<" ", "a">>
    /\ state = ReadingAnswer(<<"a">>, <<"a", "\n", " ", "a">>, 0)
    /\ cards = <<>>


(***************************************************************************)
(* Properties of the line ranges of the cards                              *)
(***************************************************************************)

\* The card's range (s, e) in the lines ls: s is the line of the tag that
\* opened the block, no line between s and e ends a block, and e is the
\* line that ended it or the last line.
RangeFits(card, ls) ==
    LET s == card.range[1]
        e == card.range[2]
    IN
    /\ 0 <= s
    /\ s <= e
    /\ e <= Len(ls) - 1
    /\ LineRead(ls[s + 1]).kind =
          (IF card.content.type = "Basic" THEN "StartQuestion" ELSE "StartCloze")
    /\ \A k \in (s + 1)..(e - 1) : LineRead(ls[k + 1]).kind \notin Terminators
    /\ \/ e > s /\ LineRead(ls[e + 1]).kind \in Terminators
       \/ e = Len(ls) - 1

\* The lines of a file behind its frontmatter: all of them when the first
\* does not open one.
ContentLines(entry) ==
    LET ls == Lines(entry.read.value)
        closing == {k \in 2..Len(ls) : Trim(ls[k]) = Dashes}
    IN
    IF ls # <<>> /\ Trim(ls[1]) = Dashes
    THEN SubSeq(ls, (CHOOSE k \in closing : \A j \in closing : k <= j) + 1, Len(ls))
    ELSE ls

\* C22: every card that parse collects or returns, and every card that
\* parse_deck has taken over from a file, has the range (s, e) of its block, with s the 0-based line of its Q: or C: tag, e the 0-based
\* line of the Question, Cloze or Separator line that ended it, or the last
\* line at the end of the file, and so s <= e <= last line; the lines are
\* counted in the text handed to parse, the file behind its frontmatter.
C22_CardRange ==
    /\ deck_pc = "parse" =>
          /\ lines = ContentLines(CurrentEntry)
          /\ \A i \in 1..Len(cards) : RangeFits(cards[i], lines)
          /\ (pc = "done" /\ result.kind = "Ok") =>
                \A i \in 1..Len(result.value) : RangeFits(result.value[i], lines)
    /\ deck_pc = "walk" =>
          \A i \in 1..Len(all_cards) :
              \E k \in 1..entry_num :
                  /\ walk[k].path = all_cards[i].file_path
                  /\ RangeFits(all_cards[i], ContentLines(walk[k]))

\* C22 witness: parse returned the cards of a file with three lines of
\* frontmatter, with an answer block of lines 0 to 2 ended by a cloze tag
\* and a cloze block of line 2 ended by the end of the file.
C22_Witness ==
    /\ deck_pc = "parse"
    /\ pc = "done"
    /\ result.kind = "Ok"
    /\ Len(Lines(CurrentEntry.read.value)) = Len(lines) + 3
    /\ Len(result.value) = 2
    /\ result.value[1].range = <<0, 2>>
    /\ result.value[2].range = <<2, 2>>


(***************************************************************************)
(* Properties of the question and the answer of a Basic card               *)
(***************************************************************************)

\* The Basic cards that parse has collected, by index.
BasicCards == {i \in 1..Len(cards) : cards[i].content.type = "Basic"}

\* The line of the A: tag of the block of the i-th card.
AnswerLine(i) ==
    CHOOSE a \in cards[i].range[1]..cards[i].range[2] :
        /\ LineRead(lines[a + 1]).kind = "StartAnswer"
        /\ \A b \in cards[i].range[1]..(a - 1) :
              LineRead(lines[b + 1]).kind # "StartAnswer"

\* The last line of the answer of the block of the i-th card: the one
\* before the line that ended the block, or the last line of the text.
LastAnswerLine(i) ==
    IF LineRead(lines[cards[i].range[2] + 1]).kind \in Terminators
    THEN cards[i].range[2] - 1
    ELSE cards[i].range[2]

\* The lines from to upto of the text as they stand in it, the first without
\* its tag, joined by their line breaks.
BlockText(from, upto) ==
    Join(<<SubSeq(lines[from + 1], 3, Len(lines[from + 1]))>>
            \o SubSeq(lines, from + 2, upto + 1),
         <<"\n">>)

\* The question and the answer of the block of the i-th card, as they stand
\* in the text.
QuestionText(i) == BlockText(cards[i].range[1], AnswerLine(i) - 1)

AnswerText(i) == BlockText(AnswerLine(i), LastAnswerLine(i))

\* C23 as stated: the question and the answer of every Basic card have no
\* white space at their ends and are otherwise the question and the answer
\* of the block with every line break and all white space inside them
\* preserved; blocks that differ in nothing but surrounding white space
\* yield cards of equal hash.
C23_BasicTrimmed ==
    /\ \A i \in BasicCards :
          /\ cards[i].content.question = Trim(cards[i].content.question)
          /\ cards[i].content.answer = Trim(cards[i].content.answer)
          /\ cards[i].content.question = Trim(QuestionText(i))
          /\ cards[i].content.answer = Trim(AnswerText(i))
    /\ \A i, j \in BasicCards :
          (/\ Trim(QuestionText(i)) = Trim(QuestionText(j))
           /\ Trim(AnswerText(i)) = Trim(AnswerText(j)))
          => CardHash(cards[i]) = CardHash(cards[j])

\* The lines from to upto of the text, joined by their line breaks, with
\* what follows the tag on the first trimmed by itself.
TagTrimmedText(from, upto) ==
    Join(<<Trim(SubSeq(lines[from + 1], 3, Len(lines[from + 1])))>>
            \o SubSeq(lines, from + 2, upto + 1),
         <<"\n">>)

\* C23: the question and the answer of every Basic card have no white
\* space at their ends and are otherwise the lines of the block joined by
\* their line breaks, the lines after the tag line as they stand and what
\* follows the tag on the tag line trimmed by itself; blocks whose questions
\* and answers, read in that way, differ in nothing but white space at
\* their ends yield cards of equal hash.
C23_TagLineTrimmed ==
    /\ \A i \in BasicCards :
          /\ cards[i].content.question = Trim(cards[i].content.question)
          /\ cards[i].content.answer = Trim(cards[i].content.answer)
          /\ cards[i].content.question =
                Trim(TagTrimmedText(cards[i].range[1], AnswerLine(i) - 1))
          /\ cards[i].content.answer =
                Trim(TagTrimmedText(AnswerLine(i), LastAnswerLine(i)))
    /\ \A i, j \in BasicCards :
          (/\ Trim(TagTrimmedText(cards[i].range[1], AnswerLine(i) - 1))
                 = Trim(TagTrimmedText(cards[j].range[1], AnswerLine(j) - 1))
           /\ Trim(TagTrimmedText(AnswerLine(i), LastAnswerLine(i)))
                 = Trim(TagTrimmedText(AnswerLine(j), LastAnswerLine(j))))
          => CardHash(cards[i]) = CardHash(cards[j])

\* C23 witness: parse has emitted a Basic card whose answer was read from
\* an A: line with white space at its end and an indented line after it.
C23_Witness ==
    /\ pc = "dedup"
    /\ Len(lines) = 3
    /\ lines[2] = <<"A", ":", " ", "a", " ">>
    /\ lines[3] = <<" ", "a">>
    /\ cards # <<>>
    /\ cards[1].content.type = "Basic"
    /\ cards[1].content.answer = <<"a", "\n", " ", "a">>


(***************************************************************************)
(* Properties of Cache                                                     *)
(***************************************************************************)

\* The call that was made last.
LastCall == cache_calls[Len(cache_calls)]

\* C24: a call of the cache that fails leaves the cache as it was: an
\* insert of a hash that is in the cache returns an error and keeps the
\* performance that was there, an update of a hash that is not in the cache
\* returns an error and does not add the hash, and a get of a hash that is
\* not in the cache returns an error.
C24_FailedCallKeepsCache ==
    [][cache_calls' # cache_calls =>
          /\ (LastCall'.op = "insert" /\ LastCall'.card_hash \in DOMAIN cache) =>
                ~LastCall'.ok /\ cache' = cache
          /\ (LastCall'.op = "update" /\ LastCall'.card_hash \notin DOMAIN cache) =>
                ~LastCall'.ok /\ cache' = cache
          /\ (LastCall'.op = "get" /\ LastCall'.card_hash \notin DOMAIN cache) =>
                ~LastCall'.ok
          /\ ~LastCall'.ok => cache' = cache]_vars

\* C24 witness: a hash was inserted as New, and the insert of the same hash
\* with another performance failed and left New in the cache.
C24_Witness ==
    /\ Len(cache_calls) = 2
    /\ cache_calls[1].op = "insert" /\ cache_calls[1].ok
    /\ cache_calls[1].performance = New
    /\ cache_calls[2].op = "insert" /\ ~cache_calls[2].ok
    /\ cache_calls[2].card_hash = cache_calls[1].card_hash
    /\ cache_calls[2].performance # New
    /\ cache[cache_calls[1].card_hash] = New

\* The calls before the n-th that wrote the entry of the hash h: the
\* inserts and updates of h that returned Ok.
WritesBefore(h, n) ==
    {k \in 1..(n - 1) :
        /\ cache_calls[k].op \in {"insert", "update"}
        /\ cache_calls[k].card_hash = h
        /\ cache_calls[k].ok}

\* The performance that the last of them wrote.
LastWritten(h, n) ==
    cache_calls[CHOOSE k \in WritesBefore(h, n) :
                    \A j \in WritesBefore(h, n) : j <= k].performance

\* An insert of h before the n-th call returned Ok.
InsertedBefore(h, n) ==
    \E k \in WritesBefore(h, n) : cache_calls[k].op = "insert"

\* C25: after any sequence of calls, get(h) succeeds if and only if an
\* earlier insert of h succeeded, and then returns the performance of the
\* last insert or update of h that succeeded; the cache holds exactly the
\* hashes that were inserted, each with that performance, whatever was
\* called for other hashes, so no call changes the entry of another hash
\* or removes a hash.
C25_CacheHistory ==
    /\ \A n \in 1..Len(cache_calls) :
          cache_calls[n].op = "get" =>
             /\ cache_calls[n].ok <=> InsertedBefore(cache_calls[n].card_hash, n)
             /\ cache_calls[n].ok =>
                   cache_calls[n].performance = LastWritten(cache_calls[n].card_hash, n)
    /\ \A x \in CacheInputs :
          /\ x.card_hash \in DOMAIN cache
                <=> InsertedBefore(x.card_hash, Len(cache_calls) + 1)
          /\ x.card_hash \in DOMAIN cache =>
                cache[x.card_hash] = LastWritten(x.card_hash, Len(cache_calls) + 1)

\* C25 witness: a hash was inserted as New and updated, and get returned
\* the performance of the update.
C25_Witness ==
    /\ Len(cache_calls) = 3
    /\ cache_calls[1].op = "insert" /\ cache_calls[1].ok
    /\ cache_calls[1].performance = New
    /\ cache_calls[2].op = "update" /\ cache_calls[2].ok
    /\ cache_calls[2].performance # New
    /\ cache_calls[3].op = "get" /\ cache_calls[3].ok
    /\ cache_calls[3].card_hash = cache_calls[1].card_hash
    /\ cache_calls[3].performance = cache_calls[2].performance


(***************************************************************************)
(* Properties of the drill session                                         *)
(***************************************************************************)

\* C26: in a session, the database is written by finish_session only: a
\* step that changes it is an End, or the grade of the last card of the
\* queue, and leaves finished_at set; no Reveal, Undo or other grade
\* stores a performance or a session.
C26_PersistOnlyAtFinish ==
    [][(deck_pc = "session" /\ mutable'.db # mutable.db) =>
          /\ mutable'.finished_at # <<>>
          /\ \/ End
             \/ Grade /\ mutable.reveal /\ mutable'.cards = <<>>]_vars

\* C26 witness: a card was graded and the queue still holds cards; the
\* cache holds a performance that the database does not, and the database
\* holds no session.
C26_Witness ==
    /\ deck_pc = "session"
    /\ mutable.reviews # <<>>
    /\ mutable.finished_at = <<>>
    /\ Len(mutable.cards) >= 2
    /\ \E h \in DOMAIN mutable.cache :
          mutable.cache[h] # New /\ mutable.db.performance[h] = New
    /\ mutable.db.sessions = <<>>


(***************************************************************************)
(* Properties of the scanning loop of parse_cloze_cards                    *)
(***************************************************************************)

\* The error of a block without a deletion.
NoDeletionError ==
    Err(ParserError("Cloze card must contain at least one cloze deletion.",
                    parser.file_path, ClozeRange[1]))

\* C27: the scanning loop ends for every body: the cursor stays within the
\* body or just behind it, and each turn moves it on, behind a token of at
\* least one byte, which is pushed, or by exactly one byte, with nothing
\* pushed and the loop going on; no token is empty.  The call returns only
\* after the whole body was scanned, and the only error it returns is that
\* of a block without a deletion.
C27_ScanTerminates ==
    /\ [](cloze_pc = "scan" => cursor \in 1..(Len(Trimmed) + 1))
    /\ [][cloze_pc = "scan" =>
             \/ /\ cursor <= Len(Trimmed)
                /\ cloze_pc' = "scan"
                /\ cursor' <= Len(Trimmed) + 1
                /\ \/ /\ CurrentToken.next # 0
                      /\ cursor' > cursor
                      /\ Len(cloze_tokens') = Len(cloze_tokens) + 1
                   \/ /\ CurrentToken.next = 0
                      /\ cursor' = cursor + 1
                      /\ cloze_tokens' = cloze_tokens
             \/ /\ cursor = Len(Trimmed) + 1
                /\ cloze_pc' = "done"
                /\ cloze_result'.kind = "Err" =>
                      /\ cloze_result' = NoDeletionError
                      /\ \A k \in 1..Len(cloze_tokens) : ~cloze_tokens[k].is_cloze]_vars

\* C27 witness: the call returned cards for a body in which the loop had
\* skipped the byte of an unmatched delimiter and pushed a deletion.
C27_Witness ==
    /\ cloze_pc = "done"
    /\ cloze_result.kind = "Ok"
    /\ Trimmed = <<"$", "|", "|", "b", "|", "|">>
    /\ Len(cloze_tokens) = 1
    /\ cloze_tokens[1].is_cloze


\* a < b for two usize, where one that wrapped below zero is held as the
\* negative number congruent to it.
UsizeLess(a, b) == IF a < 0 THEN b < 0 /\ a < b ELSE b < 0 \/ a < b

\* The index in `tokens` of the k-th recognised deletion.
NthDeletion(k) ==
    CHOOSE d \in Deletions : Cardinality({e \in Deletions : e <= d}) = k

\* C28 as stated: the cards of one block have, in the order in which they
\* are emitted, spans that are disjoint and increase, the end of one before
\* the start of the next; and the bytes start..=end of the text of each card
\* are the inner content of its deletion.
C28_SpansOrdered ==
    ClozeEmitted =>
        /\ \A k \in 1..(Len(cloze_result.value) - 1) :
              UsizeLess(cloze_result.value[k].content.end,
                        cloze_result.value[k + 1].content.start)
        /\ \A k \in 1..Len(cloze_result.value) :
              /\ 0 <= cloze_result.value[k].content.end + 1
              /\ cloze_result.value[k].content.end
                    < Len(cloze_result.value[k].content.text)
              /\ SubSeq(cloze_result.value[k].content.text,
                        cloze_result.value[k].content.start + 1,
                        cloze_result.value[k].content.end + 1)
                    = cloze_tokens[NthDeletion(k)].slice


(***************************************************************************)
(* Properties of a "---" line at the head of a file                        *)
(***************************************************************************)

\* The contents of the cards cs, in their order.
Contents(cs) == [k \in 1..Len(cs) |-> cs[k].content]

\* parse_deck returned for a walk of one deck file, whose text begins with
\* the line "---" before a body that begins with no such line and that, as
\* a file of its own, is loaded without an error.
SeparatorPrepended ==
    /\ deck_pc = "done"
    /\ Len(walk) = 1
    /\ walk[1].walk_ok
    /\ IsDeckFile(walk[1])
    /\ walk[1].read.kind = "Ok"
    /\ LET t == walk[1].read.value
       IN  /\ Opened(t)
           /\ Lines(t)[1] = Dashes
           /\ ~Opened(AfterNewlines(t, 1))
           /\ parse_deck(<<File(walk[1].path, Ok(AfterNewlines(t, 1)))>>).kind = "Ok"

\* C29 as stated: a "---" line is a card separator also as the first line
\* of a file: the cards loaded from a card body with a separator line
\* before it are the cards loaded from the body.
C29_LeadingSeparator ==
    SeparatorPrepended =>
        /\ deck_result.kind = "Ok"
        /\ Contents(deck_result.value)
              = Contents(parse_deck(<<File(walk[1].path,
                             Ok(AfterNewlines(walk[1].read.value, 1)))>>).value)

\* C29: a "---" line is a card separator wherever it is in the content that
\* reaches the parser, which is the whole file when its first line does not
\* trim to "---".  As the first line of a file it opens frontmatter: with a
\* separator line before a card body, parse_deck fails with the error of
\* the missing closing delimiter when no line of the body trims to "---",
\* and otherwise the lines up to the first such line are the header and
\* only the lines after it are parsed for cards.
C29_LeadingDashesOpen ==
    /\ SeparatorPrepended =>
          LET t == walk[1].read.value
          IN  IF ClosingLines(t) = {}
              THEN deck_result = NoClosingError
              ELSE LET r == Parse(Parser(<<>>, walk[1].path),
                                  AfterNewlines(t, ClosingLine(t)))
                   IN  \/ /\ deck_result.kind = "Err"
                          /\ deck_result.error.report.message
                                = "Failed to parse TOML frontmatter"
                       \/ /\ r.kind # "Ok"
                          /\ deck_result.kind = r.kind
                       \/ /\ r.kind = "Ok"
                          /\ deck_result.kind = "Ok"
                          /\ Contents(deck_result.value)
                                = Contents(deck_finish(r.value).value)
    /\ (/\ deck_pc = "done"
        /\ Len(walk) = 1
        /\ walk[1].walk_ok
        /\ IsDeckFile(walk[1])
        /\ walk[1].read.kind = "Ok"
        /\ ~Opened(walk[1].read.value)) =>
          LET r == Parse(Parser(<<>>, walk[1].path), walk[1].read.value)
          IN  /\ deck_result.kind = r.kind
              /\ r.kind = "Ok" =>
                    Contents(deck_result.value) = Contents(deck_finish(r.value).value)

\* C29 witness: parse_deck returned the error of the missing closing
\* delimiter for a file that is a separator line before one cloze block,
\* a body that is loaded as one card when it is a file of its own.
C29_Witness ==
    /\ SeparatorPrepended
    /\ Lines(walk[1].read.value) = <<Dashes, <<"C", ":", "|", "|", "a", "|", "|">>>>
    /\ deck_result = NoClosingError
    /\ Len(parse_deck(<<File(walk[1].path,
                             Ok(AfterNewlines(walk[1].read.value, 1)))>>).value) = 1


(***************************************************************************)
(* Properties of Action::Shutdown                                          *)
(***************************************************************************)

\* C30: in every run of the session, the shutdown signal is sent only by a
\* Shutdown handler that found finished_at set when it held the mutex: the
\* signal is sent only in the second step of a Shutdown, a handler comes to
\* that step only from a first step taken while finished_at is Some, and a
\* Shutdown whose first step finds finished_at None (before the session
\* finished, or after an Undo has cleared it) sends nothing and changes
\* nothing.
C30_ShutdownWhenFinished ==
    /\ [][shutdown_rx' # shutdown_rx =>
             /\ ShutdownSend
             /\ shutdown_pending > 0
             /\ shutdown_rx' = shutdown_rx + 1]_vars
    /\ [][shutdown_pending' > shutdown_pending =>
             /\ Shutdown
             /\ mutable.finished_at # <<>>]_vars
    /\ [][(Shutdown /\ mutable.finished_at = <<>>) => UNCHANGED vars]_vars

\* C30 witness: the signal was sent and an undo has cleared finished_at, so
\* that a Shutdown issued now finds the session not finished.
C30_Witness ==
    /\ deck_pc = "session"
    /\ ~poisoned
    /\ shutdown_rx = 1
    /\ shutdown_pending = 0
    /\ mutable.finished_at = <<>>
    /\ mutable.cards # <<>>


\* C31: whatever the order of the Shutdown handlers and of their steps, the
\* signal is sent at most once: as long as the sender is in its cell
\* nothing was sent, the handler that finds it takes it out and sends, and
\* a handler that finds None sends nothing.
C31_SentAtMostOnce ==
    /\ [](deck_pc = "session" => shutdown_rx + Len(shutdown_tx) = 1)
    /\ [][ShutdownSend =>
             IF shutdown_tx # <<>>
             THEN shutdown_rx = 0 /\ shutdown_rx' = 1 /\ shutdown_tx' = <<>>
             ELSE shutdown_rx = 1 /\ UNCHANGED <<shutdown_rx, shutdown_tx>>]_vars

\* C31 witness: the signal was sent by one handler while another, which
\* had also found the session finished, waits for the cell of the sender.
C31_Witness ==
    /\ deck_pc = "session"
    /\ shutdown_rx = 1
    /\ shutdown_tx = <<>>
    /\ shutdown_pending = 1


(***************************************************************************)
(* Properties of Action::Reveal and of the grade actions                   *)
(***************************************************************************)

\* C32 as stated: in every state of a session in which reveal is true the
\* queue holds a card, and cards.remove(0) never runs on an empty queue
\* (which would panic with the mutex held and poison it).
C32_RevealHasCard ==
    deck_pc = "session" =>
        /\ mutable.reveal => mutable.cards # <<>>
        /\ ~poisoned


(***************************************************************************)
(* Properties of finish_session                                            *)
(***************************************************************************)

\* C33 as stated: in every run of the session save_session is called at
\* most once, so the database holds at most one session of this run and no
\* review in two of them.
C33_SavedAtMostOnce ==
    deck_pc = "session" => Len(mutable.db.sessions) <= 1


(***************************************************************************)
(* Properties of Action::Undo                                              *)
(***************************************************************************)

\* A step of a grade action that made a review.
GradeReviewed ==
    /\ Grade
    /\ Len(mutable'.reviews) = Len(mutable.reviews) + 1

\* C34: an Undo that follows at once a grade action that made a review
\* leaves the queue (the same cards in the same order) and the review list
\* as they were before the grade, and reveal false, whether the card was
\* pushed to the back to be repeated or not and whether the grade finished
\* the session or not; an Undo with an empty review list changes nothing.
C34_UndoRestoresQueue ==
    /\ [][GradeReviewed =>
             \A fault \in {"none", "get_card_performance"} :
                 /\ undo(mutable', fault).cards = mutable.cards
                 /\ undo(mutable', fault).reviews = mutable.reviews
                 /\ undo(mutable', fault).reveal = FALSE]_vars
    /\ []((deck_pc = "session" /\ mutable.reviews = <<>>) =>
             \A fault \in {"none", "get_card_performance"} :
                 undo(mutable, fault) = mutable)

\* C34 witness: the last of two cards was graded, which finished the
\* session, and the grade was undone: the review that the database holds
\* is no longer in the review list, and the card is back in the queue.
C34_Witness ==
    /\ deck_pc = "session"
    /\ ~poisoned
    /\ Len(mutable.db.sessions) = 1
    /\ Len(mutable.db.sessions[1].reviews) = 2
    /\ Len(mutable.reviews) = 1
    /\ Len(mutable.cards) = 1
    /\ ~mutable.reveal
    /\ mutable.finished_at = <<>>


\* C35 as stated: after the Undo of a review of a card, the cache entry of
\* the card is the performance the card had immediately before that
\* review, that is, the entry the grade action found.
C35_UndoRestoresCache ==
    [][GradeReviewed =>
          undo(mutable', "none").cache[CardHash(Head(mutable.cards))]
             = mutable.cache[CardHash(Head(mutable.cards))]]_vars


(***************************************************************************)
(* Properties of the grade actions                                         *)
(***************************************************************************)

\* C36: a grade action that runs while reveal is false changes nothing, in
\* the session or in the database; a step that sets reveal changes only
\* that flag; and a Reveal that runs while reveal is true changes nothing.
C36_UnrevealedGradeIsNoOp ==
    /\ [][(Grade /\ ~mutable.reveal) => UNCHANGED vars]_vars
    /\ [][(deck_pc = "session" /\ mutable'.reveal /\ ~mutable.reveal) =>
             /\ Reveal
             /\ mutable' = [mutable EXCEPT !.reveal = TRUE]
             /\ UNCHANGED <<poisoned, shutdown_tx, shutdown_pending,
                            shutdown_rx, clock>>]_vars
    /\ [][(Reveal /\ mutable.reveal) => UNCHANGED vars]_vars

\* C36 witness: a session with a review made, a card in the queue and
\* reveal false, where a grade action would take the front card if it did
\* not test the flag.
C36_Witness ==
    /\ deck_pc = "session"
    /\ ~poisoned
    /\ ~mutable.reveal
    /\ mutable.cards # <<>>
    /\ mutable.reviews # <<>>
    /\ mutable.finished_at = <<>>


RecordsAfter ==
    [k \in 1..Len(mutable'.reviews) |-> into_record(mutable'.reviews[k])]

\* The step saved the session with all its reviews and set finished_at to
\* the time the session was saved with.
SessionSavedNow ==
    /\ mutable'.finished_at # <<>>
    /\ mutable'.db.sessions
          = Append(mutable.db.sessions,
                   [started_at |-> session_started_at,
                    ended_at |-> mutable'.finished_at[1],
                    reviews |-> RecordsAfter])

\* C38 as stated: a grade action that leaves the queue empty sets
\* finished_at, saves the session with all its reviews and writes every
\* cache entry to the database; one that leaves a card in the queue does
\* not set finished_at.
C38_LastGradeFinishes ==
    [][GradeReviewed =>
          IF mutable'.cards = <<>>
          THEN /\ SessionSavedNow
               /\ \A h \in DOMAIN mutable'.cache :
                     mutable'.db.performance[h] = mutable'.cache[h]
          ELSE /\ mutable'.finished_at = mutable.finished_at
               /\ mutable'.db = mutable.db]_vars

\* C38: a grade action that leaves the queue empty calls finish_session
\* within the same action.  When save_session fails, finished_at and the
\* database stay as they were; otherwise finished_at is set, the session
\* is saved with all its reviews, and the cache entries are written to the
\* database up to the first update_card_performance that fails, so each
\* entry of the database is the cache entry or what it was.  A grade
\* action that leaves a card in the queue changes neither finished_at nor
\* the database.
C38_LastGradeCallsFinish ==
    [][GradeReviewed =>
          IF mutable'.cards = <<>>
          THEN \/ /\ mutable'.finished_at = mutable.finished_at
                  /\ mutable'.db = mutable.db
               \/ /\ SessionSavedNow
                  /\ DOMAIN mutable'.db.performance = DOMAIN mutable.db.performance
                  /\ \A h \in DOMAIN mutable'.db.performance :
                        mutable'.db.performance[h]
                           \in {mutable'.cache[h], mutable.db.performance[h]}
          ELSE /\ mutable'.finished_at = mutable.finished_at
               /\ mutable'.db = mutable.db]_vars

\* C38 witness: the two cards of the queue were graded and the second
\* grade finished the session: the queue is empty, finished_at is set, the
\* one saved session holds both reviews, and the database holds every
\* cache entry.
C38_Witness ==
    /\ deck_pc = "session"
    /\ ~poisoned
    /\ mutable.cards = <<>>
    /\ mutable.finished_at # <<>>
    /\ Len(mutable.reviews) = 2
    /\ Len(mutable.db.sessions) = 1
    /\ mutable.db.sessions[1].ended_at = mutable.finished_at[1]
    /\ Len(mutable.db.sessions[1].reviews) = 2
    /\ \A h \in DOMAIN mutable.cache : mutable.db.performance[h] = mutable.cache[h]
    /\ \A h \in DOMAIN mutable.cache : mutable.cache[h] # New

=============================================================================
